---- MODULE Spec2Model ----
(***************************************************************************)
(* A model of lightbus' BusClient (lightbus/client/bus_client.py): the     *)
(* client lifecycle (lazy initialisation, server start and stop, the       *)
(* shutdown monitor, close), the RPC consume loop and the RPC call, the    *)
(* hook dispatcher and the periodic scheduler.                             *)
(*                                                                         *)
(* Every coroutine is a process whose position (a "pc" variable) moves     *)
(* from one await to the next: the code between two awaits runs without    *)
(* interruption on the event loop, so it is one step.                      *)
(***************************************************************************)
EXTENDS Integers, Sequences, FiniteSets, TLC

(***************************************************************************)
(* Bounds of the model.                                                    *)
(***************************************************************************)
MaxBackground == 1
MaxListeners == 1
MaxClients == 3
MaxClosers == 2
MaxQueue == 2
NumTransports == 2
MaxMessages == 3
MaxBatch == 2
MaxCallbacks == 3
MaxPeriod == 3
MaxTime == 7
MaxExec == 4
MaxEvents == 2

(***************************************************************************)
(* lightbus.utilities.features.Feature, as used by BusClient.              *)
(***************************************************************************)
ALL_FEATURES == {"rpcs", "events", "tasks"}

\* The distinct transports transport_registry.get_all_transports() yields,
\* in the order it yields them.
get_all_transports == 1..NumTransports

\* Coroutines that call lazy_load_now: 0 is _setup_server, the others are
\* client coroutines (call_rpc_remote, consume_rpcs, send_result, ...).
LazyCallers == 0..MaxClients
Closers == 1..MaxClosers
ExitCodes == {0, 1}

VARIABLES
    \* ---- BusClient fields
    features,                \* self.features
    api_registry,            \* names of the APIs in self.api_registry
    startedBy,               \* the method that started the server, "none" before
    _background_coroutines,  \* self._background_coroutines (ids, in order)
    _background_tasks,       \* self._background_tasks (ids, in order)
    _event_listeners,        \* self._event_listeners (ids, in order)
    _server_shutdown_queue,  \* self._server_shutdown_queue (a janus.Queue or None)
    _shutdown_monitor_task,  \* state of self._shutdown_monitor_task
    _server_tasks,           \* self._server_tasks (names of the tasks recorded)
    _consumers,              \* state of the task consume_rpcs() appends to self._consumers
    exit_code,               \* self.exit_code
    _closed,                 \* self._closed
    _lazy_load_complete,     \* self._lazy_load_complete
    \* ---- tasks on the event loop
    bgTask,                  \* state of the task of each background coroutine
    listenerTask,            \* state of each listener's task (is_listener = True)
    consume_rpc_task,        \* state of consume_rpc_task of _setup_server
    monitor_task,            \* state of the schema monitor task of _setup_server
    loop_stopped,            \* loop.stop() has been called by the shutdown monitor
    requestedBeforeStart,    \* shutdown_server was called before start_server
    shutdown_requests,       \* the exit codes put on the shutdown channel, in order
    \* ---- collaborators (what was called on them)
    opened,                  \* per transport: number of open() calls
    closedT,                 \* per transport: number of close() calls
    schemaLoads,             \* number of schema.ensure_loaded_from_bus() calls
    schemaPublishes,         \* number of times the local APIs were added to the schema
    schemaClosed,            \* number of schema.schema_transport.close() calls
    invokerStops,            \* number of _transport_invoker.stop() calls
    hooksFired,              \* lifecycle hooks fired so far, in order, with how they ended
    \* ---- positions of the coroutines
    serverPc,                \* start_server / _setup_server / stop_server
    lazyPc, lazyIdx,         \* per caller of lazy_load_now
    closePc, closeIdx,       \* per call of close_async
    closeListeners,          \* per call of close_async: its listener_tasks
    closeResult,             \* per call of close_async: how it ended
    closeAfterOk,            \* per call: it began after a call had returned normally
    cancelRaised             \* per call: an await cancel(task) of it raised

VARIABLES
    \* ---- one consume loop, _consume_rpcs_with_transport
    consumerPc,              \* what the loop is awaiting, or how it ended
    batch, batchIdx,         \* rpc_messages of the current batch, and the one handled
    nextId,                  \* id of the next message the RPC transport delivers
    resultError,             \* result_message.error of the message handled
    sent,                    \* the result messages sent on the result transport
    abort,                   \* per message: why its handling ended without a reply
    handlerOutcome,          \* per message: how _call_rpc_local ended
    msgLog                   \* per message: the steps completed, in order

VARIABLES
    \* ---- one call of call_rpc_remote
    callPc,                  \* what call_rpc_remote is awaiting, or how it ended
    timeout,                 \* the deadline of the call: 0 (none left) or positive
    children,                \* state of the receive_result / call_rpc task of the gather
    must_cancel,             \* tasks of the gather whose cancellation is requested
    future,                  \* state of the gather future
    ready,                   \* the event loop's queue of callbacks to run, in order
    waiter,                  \* the waiter future of wait_for has its result
    timerFired,              \* the deadline's timer has gone off
    hookOutcome,             \* how the awaited before_rpc_call hook ended
    timedOut,                \* wait_for ran into the deadline
    result_message,          \* the reply received: "none", "ok" or "error"
    callLog                  \* hooks fired and validations made by the call, in order

VARIABLES
    \* ---- hooks
    _hook_callbacks,         \* self._hook_callbacks: (name, before_plugins) -> callbacks
    cbVia,                   \* per callback id: the method that registered it
    hookPc, hookName,        \* the firing of _execute_hook: its state and hook name
    hookStage, hookIdx,      \* the loop or call it is in, and the index of the callback awaited
    hookTrace,               \* what the firing has called so far, in order
    registeredAtStart        \* the callbacks registered when the firing began

VARIABLES
    \* ---- one periodic task made by every(), run for a while
    now,                     \* the clock, in ticks
    schedPc,                 \* state of the call_every task
    td,                      \* the timedelta computed by every(), in ticks
    coroutine,               \* the arguments of the call_every coroutine made by every()
    also_run_immediately,
    runFor,                  \* the tick at which the task is cancelled
    first_run, start_time,   \* locals of call_every
    wakeAt, callEnd,         \* when the sleep / the callback in progress ends
    callStarts, callEnds,    \* start and end tick of every call of the callback
    fire_event_calls,        \* number of calls of fire_event made
    listen_calls,            \* number of calls of event_client.listen made by fire_event
    eventLog                 \* hooks fired and events sent by fire_event, in order

consumeVars == <<consumerPc, batch, batchIdx, nextId, resultError, sent, abort,
                 handlerOutcome, msgLog>>

callVars == <<callPc, timeout, children, must_cancel, future, ready, waiter, timerFired,
              hookOutcome, timedOut, result_message, callLog>>

hookVars == <<_hook_callbacks, cbVia, hookPc, hookName, hookStage, hookIdx, hookTrace,
              registeredAtStart>>

schedVars == <<now, schedPc, td, also_run_immediately, coroutine, runFor, first_run, start_time,
               wakeAt, callEnd, callStarts, callEnds>>

eventVars == <<fire_event_calls, listen_calls, eventLog>>

rpcVars == <<consumeVars, callVars>>

otherVars == <<rpcVars, hookVars, schedVars, eventVars>>

regVars == <<features, api_registry, startedBy, _background_coroutines, _event_listeners>>

taskVars == <<_background_tasks, bgTask, listenerTask, consume_rpc_task, monitor_task,
              _consumers, _server_tasks>>

shutHistory == <<requestedBeforeStart, shutdown_requests>>

shutVars == <<_server_shutdown_queue, _shutdown_monitor_task, exit_code, loop_stopped,
              shutHistory>>

closeVars == <<_closed, closedT, schemaClosed, invokerStops, closePc, closeIdx,
               closeListeners, closeResult, closeAfterOk, cancelRaised>>

srvVars == <<serverPc, hooksFired>>

lifeVars == <<regVars, taskVars, shutVars, closeVars, srvVars>>

lazyVars == <<_lazy_load_complete, opened, schemaLoads, schemaPublishes, lazyPc, lazyIdx>>

vars == <<lifeVars, lazyVars, rpcVars, hookVars, schedVars, eventVars>>

NoQueue == [exists |-> FALSE, items |-> <<>>]

\* BusClient.__init__, for the features given to the constructor.
BusClientInit(fs) ==
    /\ features = fs
    /\ api_registry = {}
    /\ startedBy = "none"
    /\ _background_coroutines = <<>>
    /\ _background_tasks = <<>>
    /\ _event_listeners = <<>>
    /\ _server_shutdown_queue = NoQueue
    /\ _shutdown_monitor_task = "none"
    /\ _server_tasks = {}
    /\ _consumers = "none"
    /\ exit_code = 0
    /\ _closed = FALSE
    /\ bgTask = [i \in 1..MaxBackground |-> "none"]
    /\ listenerTask = [l \in 1..MaxListeners |-> "none"]
    /\ consume_rpc_task = "none"
    /\ monitor_task = "none"
    /\ loop_stopped = FALSE
    /\ requestedBeforeStart = FALSE
    /\ shutdown_requests = <<>>
    /\ closedT = [t \in get_all_transports |-> 0]
    /\ schemaClosed = 0
    /\ invokerStops = 0
    /\ hooksFired = <<>>
    /\ serverPc = "init"
    /\ closePc = [c \in Closers |-> "idle"]
    /\ closeIdx = [c \in Closers |-> 1]
    /\ closeListeners = [c \in Closers |-> <<>>]
    /\ closeResult = [c \in Closers |-> "none"]
    /\ closeAfterOk = [c \in Closers |-> FALSE]
    /\ cancelRaised = [c \in Closers |-> FALSE]

\* The lazy initialisation of a new client (loaded = FALSE), or of a client
\* on which lazy_load_now has run once.
LazyInit(loaded) ==
    /\ _lazy_load_complete = loaded
    /\ opened = [t \in get_all_transports |-> IF loaded THEN 1 ELSE 0]
    /\ schemaLoads = (IF loaded THEN 1 ELSE 0)
    /\ schemaPublishes = (IF loaded THEN 1 ELSE 0)
    /\ lazyPc = [k \in LazyCallers |-> "idle"]
    /\ lazyIdx = [k \in LazyCallers |-> 1]

Messages == 1..MaxMessages

\* A consume loop that has not been started (consumerPc = "none") or is
\* started and awaits its first batch.
ConsumeInit(pc) ==
    /\ consumerPc = pc
    /\ batch = <<>>
    /\ batchIdx = 1
    /\ nextId = 1
    /\ resultError = FALSE
    /\ sent = <<>>
    /\ abort = [m \in Messages |-> "none"]
    /\ handlerOutcome = [m \in Messages |-> "none"]
    /\ msgLog = [m \in Messages |-> <<>>]

\* No call of call_rpc_remote yet.
ChildOrder == <<"receive_result", "call_rpc">>

Children == {ChildOrder[i] : i \in 1..Len(ChildOrder)}

CallInit ==
    /\ callPc = "idle"
    /\ timeout = 0
    /\ children = [c \in Children |-> "none"]
    /\ must_cancel = {}
    /\ future = "none"
    /\ ready = <<>>
    /\ waiter = FALSE
    /\ timerFired = FALSE
    /\ hookOutcome = "none"
    /\ timedOut = FALSE
    /\ result_message = "none"
    /\ callLog = <<>>

HookNames == {"before_worker_start", "after_worker_stopped"}

\* self._hook_callbacks = defaultdict(list)
HookInit ==
    /\ _hook_callbacks = [key \in HookNames \X BOOLEAN |-> <<>>]
    /\ cbVia = <<>>
    /\ hookPc = "idle"
    /\ hookName = "none"
    /\ hookStage = 1
    /\ hookIdx = 1
    /\ hookTrace = <<>>
    /\ registeredAtStart = [key \in HookNames \X BOOLEAN |-> <<>>]

\* No periodic task yet.
SchedInit ==
    /\ now = 0
    /\ schedPc = "none"
    /\ td = 0
    /\ coroutine = [timedelta |-> 0, also_run_immediately |-> FALSE]
    /\ also_run_immediately = FALSE
    /\ runFor = 0
    /\ first_run = TRUE
    /\ start_time = 0
    /\ wakeAt = 0
    /\ callEnd = 0
    /\ callStarts = <<>>
    /\ callEnds = <<>>

\* No event fired yet.
EventInit ==
    /\ fire_event_calls = 0
    /\ listen_calls = 0
    /\ eventLog = <<>>

OtherInit == ConsumeInit("none") /\ CallInit /\ HookInit /\ SchedInit /\ EventInit

(***************************************************************************)
(* Lazy initialisation: BusClient.lazy_load_now, one process per caller.   *)
(***************************************************************************)

\* The check of line 284, made when the coroutine is entered.
lazy_load_now_enter(k) ==
    /\ lazyPc[k] = "idle"
    /\ k = 0 => serverPc = "setup_lazy"
    /\ lazyPc' = [lazyPc EXCEPT ![k] = IF _lazy_load_complete THEN "done" ELSE "load_schema"]
    /\ UNCHANGED <<_lazy_load_complete, opened, schemaLoads, schemaPublishes, lazyIdx>>
    /\ UNCHANGED <<lifeVars, otherVars>>

\* 1. await self.schema.ensure_loaded_from_bus()
lazy_load_now_schema(k) ==
    /\ lazyPc[k] = "load_schema"
    /\ schemaLoads' = schemaLoads + 1
    /\ lazyPc' = [lazyPc EXCEPT ![k] = "add_api"]
    /\ UNCHANGED <<_lazy_load_complete, opened, schemaPublishes, lazyIdx>>
    /\ UNCHANGED <<lifeVars, otherVars>>

\* 2. for api in self.api_registry.all(): await self.schema.add_api(api)
lazy_load_now_add_api(k) ==
    /\ lazyPc[k] = "add_api"
    /\ schemaPublishes' = schemaPublishes + 1
    /\ lazyPc' = [lazyPc EXCEPT ![k] = "open"]
    /\ lazyIdx' = [lazyIdx EXCEPT ![k] = 1]
    /\ UNCHANGED <<_lazy_load_complete, opened, schemaLoads>>
    /\ UNCHANGED <<lifeVars, otherVars>>

\* A lazy_load_now that marks the load complete after the first open().
transports_opened_after_first(idx) == TRUE

\* The loop over get_all_transports() (lines 310-311) is left after the
\* open() of the last transport.
transports_opened(idx) == idx = NumTransports

\* 3. for transport in get_all_transports(): await transport.open()
\* 4. self._lazy_load_complete = True, once the last open() has returned
lazy_load_now_open(k) ==
    /\ lazyPc[k] = "open"
    /\ opened' = [opened EXCEPT ![lazyIdx[k]] = @ + 1]
    /\ IF transports_opened(lazyIdx[k])
       THEN /\ _lazy_load_complete' = TRUE
            /\ lazyPc' = [lazyPc EXCEPT ![k] = "done"]
            /\ UNCHANGED lazyIdx
       ELSE /\ lazyIdx' = [lazyIdx EXCEPT ![k] = @ + 1]
            /\ UNCHANGED <<_lazy_load_complete, lazyPc>>
    /\ UNCHANGED <<schemaLoads, schemaPublishes>>
    /\ UNCHANGED <<lifeVars, otherVars>>

(***************************************************************************)
(* Registration before the server starts.                                  *)
(***************************************************************************)

\* self._background_coroutines.append(coroutine)
add_background_task ==
    /\ serverPc = "init"
    /\ Len(_background_coroutines) < MaxBackground
    /\ _background_coroutines' = Append(_background_coroutines, Len(_background_coroutines) + 1)
    /\ UNCHANGED <<features, api_registry, startedBy, _event_listeners>>
    /\ UNCHANGED <<taskVars, shutVars, closeVars, srvVars, lazyVars, otherVars>>

\* A listener is recorded; its task is started by _setup_server only.
listen_for_events ==
    /\ serverPc = "init"
    /\ Len(_event_listeners) < MaxListeners
    /\ _event_listeners' = Append(_event_listeners, Len(_event_listeners) + 1)
    /\ UNCHANGED <<features, api_registry, startedBy, _background_coroutines>>
    /\ UNCHANGED <<taskVars, shutVars, closeVars, srvVars, lazyVars, otherVars>>

(***************************************************************************)
(* Helpers.                                                                *)
(***************************************************************************)
Range(q) == {q[i] : i \in 1..Len(q)}

\* close is the last operation on a client: the server is started and stopped
\* before the first call of close begins (run_forever's order).
NoCloseBegun == \A c \in Closers : closePc[c] = "idle"

(***************************************************************************)
(* The shutdown channel.                                                   *)
(***************************************************************************)

\* A shutdown_server that does not test whether the queue exists.
shutdown_server_put_unguarded(q, code) == [q EXCEPT !.items = Append(@, code)]

\* A shutdown_server that drops the exit code.
shutdown_server_drop(q, code) == q

\* A shutdown_server whose queue has one slot and refuses a code when full.
shutdown_server_put_one_slot(q, code) ==
    IF q.exists /\ q.items = <<>> THEN [q EXCEPT !.items = Append(@, code)] ELSE q

\* shutdown_server(exit_code): the queue after the call.
shutdown_server_put(q, code) ==
    IF q.exists THEN [q EXCEPT !.items = Append(@, code)] ELSE q

\* The done-callback make_exception_checker(self, die=True) of a task that
\* ended with an uncaught error: it asks for a shutdown with exit code 1.
make_exception_checker(q) == shutdown_server_put(q, 1)

shutdown_server ==
    \E code \in ExitCodes :
        /\ Len(_server_shutdown_queue.items) < MaxQueue
        /\ _server_shutdown_queue' = shutdown_server_put(_server_shutdown_queue, code)
        /\ requestedBeforeStart' = (requestedBeforeStart \/ ~_server_shutdown_queue.exists)
        /\ shutdown_requests' = IF _server_shutdown_queue.exists
                                THEN Append(shutdown_requests, code) ELSE shutdown_requests
        /\ UNCHANGED <<_shutdown_monitor_task, exit_code, loop_stopped>>
        /\ UNCHANGED <<regVars, taskVars, closeVars, srvVars, lazyVars, otherVars>>

\* A monitor that stores no exit code.
monitor_exit_code_ignored(received) == 0

\* The exit code server_shutdown_monitor stores for the code it received.
monitor_exit_code(received) == received

\* server_shutdown_monitor(), once async_q.get() returns.
server_shutdown_monitor ==
    /\ _shutdown_monitor_task = "waiting"
    /\ _server_shutdown_queue.items # <<>>
    /\ exit_code' = monitor_exit_code(Head(_server_shutdown_queue.items))
    /\ loop_stopped' = TRUE
    /\ _server_shutdown_queue' = [_server_shutdown_queue EXCEPT !.items = Tail(@)]
    /\ _shutdown_monitor_task' = "done"
    /\ UNCHANGED shutHistory
    /\ UNCHANGED <<regVars, taskVars, closeVars, srvVars, lazyVars, otherVars>>

(***************************************************************************)
(* Server start: start_server and _setup_server.                           *)
(***************************************************************************)

\* The APIs _setup_server adds to the registry (lines 207-208).
InternalApis == {"internal.state", "internal.metrics"}

\* The APIs the application may register.
UserApis == {"my.api"}

\* self.api_registry.add(api)
register_api ==
    /\ serverPc = "init"
    /\ \E api \in UserApis \ api_registry : api_registry' = api_registry \cup {api}
    /\ UNCHANGED <<features, startedBy, _background_coroutines, _event_listeners>>
    /\ UNCHANGED <<taskVars, shutVars, closeVars, srvVars, lazyVars, otherVars>>

\* A run_forever that leaves the features as they are.
run_forever_features_kept(fs, apis) == fs

\* The features run_forever leaves for start_server (lines 140-142).
run_forever_features(fs, apis) ==
    IF apis = {} /\ "rpcs" \in fs THEN fs \ {"rpcs"} ELSE fs

\* start_server up to the first await of _setup_server (lazy_load_now),
\* called by method `by` with the features fs.
start_server_with(by, fs) ==
    /\ serverPc = "init"
    /\ NoCloseBegun
    /\ features' = fs
    /\ startedBy' = by
    /\ api_registry' = api_registry \cup InternalApis
    /\ _server_shutdown_queue' = [exists |-> TRUE, items |-> <<>>]
    /\ _server_tasks' = {}
    /\ _shutdown_monitor_task' = "waiting"
    /\ serverPc' = "setup_lazy"
    /\ UNCHANGED <<exit_code, loop_stopped, shutHistory, hooksFired>>
    /\ UNCHANGED <<_background_tasks, bgTask, listenerTask, consume_rpc_task, monitor_task,
                   _consumers>>
    /\ UNCHANGED <<_background_coroutines, _event_listeners, closeVars, lazyVars, otherVars>>

\* client.start_server(), called by the application.
start_server == start_server_with("start_server", features)

\* client.run_forever(), up to the first await of _setup_server.
run_forever == start_server_with("run_forever", run_forever_features(features, api_registry))

\* _setup_server from the return of lazy_load_now to the await of the
\* before_worker_start hook: the schema monitor task is created.
_setup_server_monitor ==
    /\ serverPc = "setup_lazy"
    /\ lazyPc[0] = "done"
    /\ monitor_task' = "running"
    /\ serverPc' = "setup_hook"
    /\ UNCHANGED <<_background_tasks, bgTask, listenerTask, consume_rpc_task, _consumers,
                   _server_tasks, hooksFired>>
    /\ UNCHANGED <<regVars, shutVars, closeVars, lazyVars, otherVars>>

\* What _setup_server starts for the features fs (lines 233-250).
RpcTaskFor(fs) == IF "rpcs" \in fs THEN "pending" ELSE "none"

ListenersFor(fs) == IF "events" \in fs THEN _event_listeners ELSE <<>>

\* A _setup_server that starts the background coroutines whatever the features.
BackgroundForUngated(fs) == _background_coroutines

BackgroundFor(fs) == IF "tasks" \in fs THEN _background_coroutines ELSE <<>>

\* A _setup_server that goes on when the before_worker_start hook raises.
_setup_server_tasks_hook_ignored(ok, fs) ==
    [pc |-> "running", rpc |-> RpcTaskFor(fs),
     listeners |-> ListenersFor(fs), background |-> BackgroundFor(fs)]

\* What _setup_server does after await self._execute_hook("before_worker_start")
\* (lines 229-252): the error of the hook ends it, otherwise the tasks of
\* the enabled features are started.
_setup_server_tasks(ok, fs) ==
    IF ok
    THEN [pc |-> "running", rpc |-> RpcTaskFor(fs),
          listeners |-> ListenersFor(fs), background |-> BackgroundFor(fs)]
    ELSE [pc |-> "setup_failed", rpc |-> "none", listeners |-> <<>>, background |-> <<>>]

\* _setup_server from the end of the before_worker_start hook: the hook
\* raised (ok = FALSE) and _setup_server ends with its error, or the tasks
\* are started and recorded.
_setup_server_spawn ==
    /\ serverPc = "setup_hook"
    /\ \E ok \in BOOLEAN :
        LET then == _setup_server_tasks(ok, features) IN
        /\ hooksFired' = Append(hooksFired, IF ok THEN "before_worker_start"
                                            ELSE "before_worker_start_raised")
        /\ consume_rpc_task' = then.rpc
        /\ listenerTask' = [l \in 1..MaxListeners |->
               IF l \in Range(then.listeners) THEN "running" ELSE listenerTask[l]]
        /\ bgTask' = [i \in 1..MaxBackground |->
               IF i \in Range(then.background) THEN "running" ELSE bgTask[i]]
        /\ _background_tasks' = _background_tasks \o then.background
        /\ _server_tasks' = IF then.pc = "running"
                            THEN {"consume_rpc_task", "monitor_task"} ELSE _server_tasks
        /\ serverPc' = then.pc
        /\ UNCHANGED <<monitor_task, _consumers>>
    /\ UNCHANGED <<regVars, shutVars, closeVars, lazyVars, otherVars>>

(***************************************************************************)
(* The tasks of the server.                                                *)
(***************************************************************************)

\* consume_rpcs() run as consume_rpc_task: lazy_load_now returns at once (the
\* load is complete), the gather of the consume loops is started as a task
\* of its own and appended to self._consumers, and the coroutine returns.
consume_rpcs ==
    /\ consume_rpc_task = "pending"
    /\ _lazy_load_complete
    /\ consume_rpc_task' = "finished"
    /\ _consumers' = "running"
    /\ UNCHANGED <<_background_tasks, bgTask, listenerTask, monitor_task, _server_tasks>>
    /\ UNCHANGED <<regVars, shutVars, closeVars, srvVars, lazyVars, otherVars>>

\* The consume loops of the task in self._consumers find their transport
\* closed and return (except TransportIsClosed: return), which ends the task.
consumers_transport_closed ==
    /\ _consumers = "running"
    /\ \A t \in get_all_transports : closedT[t] > 0
    /\ _consumers' = "finished"
    /\ UNCHANGED <<_background_tasks, bgTask, listenerTask, consume_rpc_task, monitor_task,
                   _server_tasks>>
    /\ UNCHANGED <<regVars, shutVars, closeVars, srvVars, lazyVars, otherVars>>

\* The coroutine of background task i raises: the task ends and its
\* done-callback runs.
background_task_raises(i) ==
    /\ bgTask[i] = "running"
    /\ Len(_server_shutdown_queue.items) < MaxQueue
    /\ bgTask' = [bgTask EXCEPT ![i] = "raised"]
    /\ _server_shutdown_queue' = make_exception_checker(_server_shutdown_queue)
    /\ shutdown_requests' = Append(shutdown_requests, 1)
    /\ UNCHANGED <<_shutdown_monitor_task, exit_code, loop_stopped, requestedBeforeStart>>
    /\ UNCHANGED <<_background_tasks, listenerTask, consume_rpc_task, monitor_task,
                   _consumers, _server_tasks>>
    /\ UNCHANGED <<regVars, closeVars, srvVars, lazyVars, otherVars>>

(***************************************************************************)
(* Server stop: stop_server and _stop_server_inner.                        *)
(***************************************************************************)

\* async_tools.cancel(task): the state of the task once cancel() returns.
cancel(state) == IF state \in {"running", "pending", "waiting"} THEN "cancelled" ELSE state

\* block(cancel(self._shutdown_monitor_task))
stop_server ==
    /\ serverPc = "running"
    /\ NoCloseBegun
    /\ _shutdown_monitor_task' = cancel(_shutdown_monitor_task)
    /\ serverPc' = "stopping"
    /\ UNCHANGED <<_server_shutdown_queue, exit_code, loop_stopped, shutHistory, hooksFired>>
    /\ UNCHANGED <<regVars, taskVars, closeVars, lazyVars, otherVars>>

\* await cancel(*self._server_tasks), then the after_worker_stopped hook.
_stop_server_inner ==
    /\ serverPc = "stopping"
    /\ consume_rpc_task' = IF "consume_rpc_task" \in _server_tasks
                           THEN cancel(consume_rpc_task) ELSE consume_rpc_task
    /\ monitor_task' = IF "monitor_task" \in _server_tasks
                       THEN cancel(monitor_task) ELSE monitor_task
    /\ hooksFired' = Append(hooksFired, "after_worker_stopped")
    /\ serverPc' = "stopped"
    /\ UNCHANGED <<_background_tasks, bgTask, listenerTask, _consumers, _server_tasks>>
    /\ UNCHANGED <<regVars, shutVars, closeVars, lazyVars, otherVars>>

(***************************************************************************)
(* Close: BusClient.close_async, one process per call.                     *)
(***************************************************************************)

\* A close_async that lacks the check of self._closed.
close_async_never_closed(flag) == FALSE

\* if self._closed: raise BusAlreadyClosed()
close_async_already_closed(flag) == flag

\* listener_tasks: the unfinished tasks of the loop tagged is_listener.
listener_tasks ==
    SelectSeq([l \in 1..MaxListeners |-> l], LAMBDA l : listenerTask[l] = "running")

Tag(kind, q) == [i \in 1..Len(q) |-> <<kind, q[i]>>]

\* A close_async that cancels the listener tasks only.
close_async_tasks_listeners_only(listeners) == Tag("listener", listeners)

\* chain(listener_tasks, self._background_tasks)
close_async_tasks(listeners) ==
    Tag("listener", listeners) \o Tag("background", _background_tasks)

close_async_enter(c) ==
    /\ closePc[c] = "idle"
    /\ c > 1 => closePc[c - 1] # "idle"
    /\ serverPc \in {"init", "running", "setup_failed", "stopped"}
    /\ closeAfterOk' = [closeAfterOk EXCEPT ![c] =
            \E d \in Closers : closePc[d] = "returned" /\ closeResult[d] = "ok"]
    /\ IF close_async_already_closed(_closed)
       THEN /\ closeResult' = [closeResult EXCEPT ![c] = "BusAlreadyClosed"]
            /\ closePc' = [closePc EXCEPT ![c] = "finally"]
            /\ UNCHANGED <<closeListeners, closeIdx>>
       ELSE /\ closeListeners' = [closeListeners EXCEPT ![c] = listener_tasks]
            /\ closeIdx' = [closeIdx EXCEPT ![c] = 1]
            /\ closePc' = [closePc EXCEPT ![c] =
                    IF Len(close_async_tasks(listener_tasks)) = 0 THEN "closing" ELSE "cancelling"]
            /\ UNCHANGED closeResult
    /\ UNCHANGED <<_closed, closedT, schemaClosed, invokerStops, cancelRaised>>
    /\ UNCHANGED <<regVars, taskVars, shutVars, srvVars, lazyVars, otherVars>>

\* A loop whose "await cancel(task)" is outside any try statement.
cancel_error_propagates(raises) == IF raises THEN "finally" ELSE "continue"

\* try: await cancel(task) / except Exception as e: logger.exception(e):
\* the loop goes on whether cancel() raised or not.
except_cancel_error(raises) == "continue"

\* await cancel(task), which returns or raises once the task is cancelled.
close_async_cancel(c) ==
    /\ closePc[c] = "cancelling"
    /\ LET tasks == close_async_tasks(closeListeners[c])
           task == tasks[closeIdx[c]]
       IN  /\ closeIdx[c] <= Len(tasks)
           /\ IF task[1] = "listener"
              THEN /\ listenerTask' = [listenerTask EXCEPT ![task[2]] = cancel(@)]
                   /\ UNCHANGED bgTask
              ELSE /\ bgTask' = [bgTask EXCEPT ![task[2]] = cancel(@)]
                   /\ UNCHANGED listenerTask
           /\ \E raises \in BOOLEAN :
                /\ cancelRaised' = [cancelRaised EXCEPT ![c] = @ \/ raises]
                /\ IF except_cancel_error(raises) = "finally"
                   THEN /\ closePc' = [closePc EXCEPT ![c] = "finally"]
                        /\ UNCHANGED closeIdx
                   ELSE IF closeIdx[c] = Len(tasks)
                   THEN /\ closePc' = [closePc EXCEPT ![c] = "closing"]
                        /\ closeIdx' = [closeIdx EXCEPT ![c] = 1]
                   ELSE /\ closeIdx' = [closeIdx EXCEPT ![c] = @ + 1]
                        /\ UNCHANGED closePc
    /\ UNCHANGED <<_closed, closedT, schemaClosed, invokerStops, closeListeners,
                   closeResult, closeAfterOk>>
    /\ UNCHANGED <<_background_tasks, consume_rpc_task, monitor_task, _consumers,
                   _server_tasks>>
    /\ UNCHANGED <<regVars, shutVars, srvVars, lazyVars, otherVars>>

\* A close_async that marks the client closed whether close() raised or not.
mark_closed_always(ok, flag) == TRUE

\* self._closed = True (line 131) is reached only when the close() calls
\* before it have returned; an error leaves the flag as it was.
mark_closed(ok, flag) == IF ok THEN TRUE ELSE flag

\* await transport.close(), which returns (ok) or raises.
close_async_transport(c) ==
    /\ closePc[c] = "closing"
    /\ closedT' = [closedT EXCEPT ![closeIdx[c]] = @ + 1]
    /\ \E ok \in BOOLEAN :
        IF ok
        THEN /\ IF closeIdx[c] = NumTransports
                THEN /\ closePc' = [closePc EXCEPT ![c] = "schema"]
                     /\ UNCHANGED closeIdx
                ELSE /\ closeIdx' = [closeIdx EXCEPT ![c] = @ + 1]
                     /\ UNCHANGED closePc
             /\ UNCHANGED <<closeResult, _closed>>
        ELSE /\ closeResult' = [closeResult EXCEPT ![c] = "error"]
             /\ closePc' = [closePc EXCEPT ![c] = "finally"]
             /\ _closed' = mark_closed(FALSE, _closed)
             /\ UNCHANGED closeIdx
    /\ UNCHANGED <<schemaClosed, invokerStops, closeListeners, closeAfterOk,
                   cancelRaised>>
    /\ UNCHANGED <<regVars, taskVars, shutVars, srvVars, lazyVars, otherVars>>

\* await self.schema.schema_transport.close(); self._closed = True
close_async_schema(c) ==
    /\ closePc[c] = "schema"
    /\ schemaClosed' = schemaClosed + 1
    /\ \E ok \in BOOLEAN :
        /\ _closed' = mark_closed(ok, _closed)
        /\ closeResult' = [closeResult EXCEPT ![c] = IF ok THEN "ok" ELSE "error"]
    /\ closePc' = [closePc EXCEPT ![c] = "finally"]
    /\ UNCHANGED <<closedT, invokerStops, closeIdx, closeListeners, closeAfterOk, cancelRaised>>
    /\ UNCHANGED <<regVars, taskVars, shutVars, srvVars, lazyVars, otherVars>>

\* finally: await self._transport_invoker.stop()
close_async_finally(c) ==
    /\ closePc[c] = "finally"
    /\ invokerStops' = invokerStops + 1
    /\ closePc' = [closePc EXCEPT ![c] = "returned"]
    /\ UNCHANGED <<_closed, closedT, schemaClosed, closeIdx, closeListeners, closeResult,
                   closeAfterOk, cancelRaised>>
    /\ UNCHANGED <<regVars, taskVars, shutVars, srvVars, lazyVars, otherVars>>

(***************************************************************************)
(* The lifecycle of one client, closed by one call of close.               *)
(***************************************************************************)
Init == (\E fs \in SUBSET ALL_FEATURES : BusClientInit(fs)) /\ LazyInit(FALSE) /\ OtherInit

Next ==
    \/ add_background_task
    \/ listen_for_events
    \/ lazy_load_now_enter(0)
    \/ lazy_load_now_schema(0)
    \/ lazy_load_now_add_api(0)
    \/ lazy_load_now_open(0)
    \/ start_server
    \/ _setup_server_monitor
    \/ _setup_server_spawn
    \/ consume_rpcs
    \/ consumers_transport_closed
    \/ \E i \in 1..MaxBackground : background_task_raises(i)
    \/ shutdown_server
    \/ server_shutdown_monitor
    \/ stop_server
    \/ _stop_server_inner
    \/ close_async_enter(1)
    \/ close_async_cancel(1)
    \/ close_async_transport(1)
    \/ close_async_schema(1)
    \/ close_async_finally(1)

Spec == Init /\ [][Next]_vars

\* await client.fire_event(api_name, name, kwargs, options): the body is one
\* call of self.event_client.listen with the arguments of an event to send,
\* whose result (or error) it returns; it fires no hook and calls send_event
\* on no transport.
fire_event ==
    /\ fire_event_calls < MaxEvents
    /\ fire_event_calls' = fire_event_calls + 1
    /\ listen_calls' = listen_calls + 1
    /\ UNCHANGED eventLog
    /\ UNCHANGED <<lifeVars, lazyVars, rpcVars, hookVars, schedVars>>

\* The start of a server, by run_forever or by start_server, on a client
\* with or without registered APIs.
NextRun ==
    \/ register_api
    \/ fire_event
    \/ add_background_task
    \/ listen_for_events
    \/ run_forever
    \/ start_server
    \/ lazy_load_now_enter(0)
    \/ lazy_load_now_schema(0)
    \/ lazy_load_now_add_api(0)
    \/ lazy_load_now_open(0)
    \/ _setup_server_monitor
    \/ _setup_server_spawn
    \/ consume_rpcs

SpecRun == Init /\ [][NextRun]_vars

(***************************************************************************)
(* A client with every feature enabled that is closed by several calls of  *)
(* close/close_async, which may overlap (close_async suspends at each      *)
(* await) or follow one another.                                           *)
(***************************************************************************)
InitClose == BusClientInit(ALL_FEATURES) /\ LazyInit(FALSE) /\ OtherInit

NextClose ==
    \/ add_background_task
    \/ listen_for_events
    \/ lazy_load_now_enter(0)
    \/ lazy_load_now_schema(0)
    \/ lazy_load_now_add_api(0)
    \/ lazy_load_now_open(0)
    \/ start_server
    \/ _setup_server_monitor
    \/ _setup_server_spawn
    \/ consume_rpcs
    \/ \E i \in 1..MaxBackground : background_task_raises(i)
    \/ server_shutdown_monitor
    \/ stop_server
    \/ _stop_server_inner
    \/ \E c \in Closers : close_async_enter(c)
    \/ \E c \in Closers : close_async_cancel(c)
    \/ \E c \in Closers : close_async_transport(c)
    \/ \E c \in Closers : close_async_schema(c)
    \/ \E c \in Closers : close_async_finally(c)

SpecClose == InitClose /\ [][NextClose]_vars

(***************************************************************************)
(* Client coroutines that need the lazy initialisation (call_rpc_remote,   *)
(* consume_rpcs, send_result, receive_result, _call_rpc_local or a direct  *)
(* call of lazy_load_now), running concurrently on one event loop.         *)
(***************************************************************************)
Clients == 1..MaxClients

\* The caller goes on after lazy_load_now has returned, and may call again.
lazy_load_now_return(k) ==
    /\ lazyPc[k] = "done"
    /\ lazyPc' = [lazyPc EXCEPT ![k] = "idle"]
    /\ UNCHANGED <<_lazy_load_complete, opened, schemaLoads, schemaPublishes, lazyIdx>>
    /\ UNCHANGED <<lifeVars, otherVars>>

InitLazy == BusClientInit(ALL_FEATURES) /\ LazyInit(FALSE) /\ OtherInit

NextLazy ==
    \/ \E k \in Clients : lazy_load_now_enter(k)
    \/ \E k \in Clients : lazy_load_now_schema(k)
    \/ \E k \in Clients : lazy_load_now_add_api(k)
    \/ \E k \in Clients : lazy_load_now_open(k)
    \/ \E k \in Clients : lazy_load_now_return(k)

SpecLazy == InitLazy /\ [][NextLazy]_vars

(***************************************************************************)
(* The RPC consume loop: BusClient._consume_rpcs_with_transport, for one   *)
(* RPC transport. The transport hands out messages with unique ids, in     *)
(* batches; what validation, the hooks, the local method and the result    *)
(* transport do with each message is chosen freely.                        *)
(***************************************************************************)
notConsumeVars == <<lifeVars, lazyVars, callVars, hookVars, schedVars, eventVars>>

Log(m, step) == [msgLog EXCEPT ![m] = Append(@, step)]

CurrentMessage == batch[batchIdx]

\* The loop ends with an error at message m.
ConsumerRaises(m, why) ==
    /\ consumerPc' = "raised"
    /\ abort' = [abort EXCEPT ![m] = why]

\* rpc_messages = await rpc_transport.consume_rpcs(apis, bus_client=self)
consume_rpcs_batch ==
    /\ consumerPc = "consume"
    /\ \E n \in 1..MaxBatch :
        /\ nextId + n - 1 <= MaxMessages
        /\ batch' = [i \in 1..n |-> nextId + i - 1]
        /\ nextId' = nextId + n
    /\ batchIdx' = 1
    /\ consumerPc' = "validate"
    /\ UNCHANGED <<resultError, sent, abort, handlerOutcome, msgLog>>
    /\ UNCHANGED notConsumeVars

\* except TransportIsClosed: return
consume_rpcs_transport_closed ==
    /\ consumerPc = "consume"
    /\ consumerPc' = "returned"
    /\ UNCHANGED <<batch, batchIdx, nextId, resultError, sent, abort, handlerOutcome, msgLog>>
    /\ UNCHANGED notConsumeVars

\* self._validate(rpc_message, "incoming"), then the before_rpc_execution
\* hook is awaited.
validate_incoming ==
    /\ consumerPc = "validate"
    /\ \E ok \in BOOLEAN :
        IF ok
        THEN /\ consumerPc' = "before_rpc_execution"
             /\ msgLog' = Log(CurrentMessage, "validated_incoming")
             /\ UNCHANGED abort
        ELSE /\ ConsumerRaises(CurrentMessage, "validate_incoming")
             /\ UNCHANGED msgLog
    /\ UNCHANGED <<batch, batchIdx, nextId, resultError, sent, handlerOutcome>>
    /\ UNCHANGED notConsumeVars

\* await self._execute_hook("before_rpc_execution", ...) returns or raises.
before_rpc_execution ==
    /\ consumerPc = "before_rpc_execution"
    /\ \E ok \in BOOLEAN :
        IF ok
        THEN /\ consumerPc' = "_call_rpc_local"
             /\ msgLog' = Log(CurrentMessage, "before_rpc_execution")
             /\ UNCHANGED abort
        ELSE /\ ConsumerRaises(CurrentMessage, "before_rpc_execution")
             /\ UNCHANGED msgLog
    /\ UNCHANGED <<batch, batchIdx, nextId, resultError, sent, handlerOutcome>>
    /\ UNCHANGED notConsumeVars

\* How _call_rpc_local can end: it returns a value (which deform_to_bus
\* accepts or not), or it raises.
LocalOutcomes == {"returned", "undeformable", "Exception", "SuddenDeathException"}

\* A loop whose result for a raised exception is not marked as an error.
try_call_rpc_local_error_unmarked(outcome) ==
    CASE outcome = "returned" -> [pc |-> "after_rpc_execution", abort |-> "none", error |-> FALSE]
      [] outcome = "undeformable" -> [pc |-> "raised", abort |-> "deform_to_bus", error |-> FALSE]
      [] outcome = "Exception" -> [pc |-> "after_rpc_execution", abort |-> "none", error |-> FALSE]
      [] outcome = "SuddenDeathException" ->
             [pc |-> "returned", abort |-> "SuddenDeathException", error |-> FALSE]
      [] outcome = "CancelledError" ->
             [pc |-> "cancelled", abort |-> "CancelledError", error |-> FALSE]

\* A loop without the "except Exception" clause of lines 378-379.
try_call_rpc_local_uncaught(outcome) ==
    CASE outcome = "returned" -> [pc |-> "after_rpc_execution", abort |-> "none", error |-> FALSE]
      [] outcome = "undeformable" -> [pc |-> "raised", abort |-> "deform_to_bus", error |-> FALSE]
      [] outcome = "Exception" -> [pc |-> "raised", abort |-> "Exception", error |-> TRUE]
      [] outcome = "SuddenDeathException" ->
             [pc |-> "returned", abort |-> "SuddenDeathException", error |-> FALSE]
      [] outcome = "CancelledError" ->
             [pc |-> "cancelled", abort |-> "CancelledError", error |-> FALSE]

\* A loop whose "except Exception" clause also catches CancelledError.
try_call_rpc_local_cancel_caught(outcome) ==
    CASE outcome = "returned" -> [pc |-> "after_rpc_execution", abort |-> "none", error |-> FALSE]
      [] outcome = "undeformable" -> [pc |-> "raised", abort |-> "deform_to_bus", error |-> FALSE]
      [] outcome = "Exception" -> [pc |-> "after_rpc_execution", abort |-> "none", error |-> TRUE]
      [] outcome = "SuddenDeathException" ->
             [pc |-> "returned", abort |-> "SuddenDeathException", error |-> FALSE]
      [] outcome = "CancelledError" ->
             [pc |-> "after_rpc_execution", abort |-> "none", error |-> TRUE]

\* The try statement around _call_rpc_local (lines 367-381): where the loop
\* goes on, and the error flag of the ResultMessage built from the result.
try_call_rpc_local(outcome) ==
    CASE outcome = "returned" -> [pc |-> "after_rpc_execution", abort |-> "none", error |-> FALSE]
      [] outcome = "undeformable" -> [pc |-> "raised", abort |-> "deform_to_bus", error |-> FALSE]
      [] outcome = "Exception" -> [pc |-> "after_rpc_execution", abort |-> "none", error |-> TRUE]
      [] outcome = "SuddenDeathException" ->
             [pc |-> "returned", abort |-> "SuddenDeathException", error |-> FALSE]
      [] outcome = "CancelledError" ->
             [pc |-> "cancelled", abort |-> "CancelledError", error |-> FALSE]

\* await self._call_rpc_local(...) returns or raises; the ResultMessage is
\* built and the after_rpc_execution hook is awaited.
_call_rpc_local ==
    /\ consumerPc = "_call_rpc_local"
    /\ \E outcome \in LocalOutcomes :
        LET then == try_call_rpc_local(outcome) IN
        /\ handlerOutcome' = [handlerOutcome EXCEPT ![CurrentMessage] = outcome]
        /\ consumerPc' = then.pc
        /\ abort' = [abort EXCEPT ![CurrentMessage] = then.abort]
        /\ resultError' = then.error
        /\ msgLog' = IF then.pc = "after_rpc_execution"
                     THEN Log(CurrentMessage, "executed") ELSE msgLog
    /\ UNCHANGED <<batch, batchIdx, nextId, sent>>
    /\ UNCHANGED notConsumeVars

\* A loop that sends every result without validating it.
validate_outgoing_skipped(error, valid) == [pc |-> "send_result", log |-> <<>>]

\* if not result_message.error: self._validate(result_message, "outgoing")
\* (lines 390-394): an error result is not validated, any other result is
\* and the loop goes on to send_result only when it is valid.
validate_outgoing(error, valid) ==
    IF error THEN [pc |-> "send_result", log |-> <<>>]
    ELSE IF valid THEN [pc |-> "send_result", log |-> <<"validated_outgoing">>]
    ELSE [pc |-> "raised", log |-> <<>>]

\* await self._execute_hook("after_rpc_execution", ...) returns or raises;
\* then the result is validated as outgoing unless it is an error, and
\* send_result is awaited.
after_rpc_execution ==
    /\ consumerPc = "after_rpc_execution"
    /\ \E hook_ok \in BOOLEAN, valid \in BOOLEAN :
        IF ~hook_ok
        THEN /\ ConsumerRaises(CurrentMessage, "after_rpc_execution")
             /\ UNCHANGED msgLog
        ELSE LET then == validate_outgoing(resultError, valid) IN
             /\ consumerPc' = then.pc
             /\ abort' = IF then.pc = "raised"
                         THEN [abort EXCEPT ![CurrentMessage] = "validate_outgoing"]
                         ELSE abort
             /\ msgLog' = [msgLog EXCEPT ![CurrentMessage] =
                              Append(@, "after_rpc_execution") \o then.log]
    /\ UNCHANGED <<batch, batchIdx, nextId, resultError, sent, handlerOutcome>>
    /\ UNCHANGED notConsumeVars

\* A loop that asks the transport for a new batch after every message.
next_rpc_message_new_batch(rpc_messages, idx) ==
    [batch |-> <<>>, idx |-> 1, pc |-> "consume"]

\* for rpc_message in rpc_messages, inside while True (lines 357-363): after
\* a message the loop takes the next message of the batch, and asks the
\* transport for a new batch only after the last one.
next_rpc_message(rpc_messages, idx) ==
    IF idx < Len(rpc_messages)
    THEN [batch |-> rpc_messages, idx |-> idx + 1, pc |-> "validate"]
    ELSE [batch |-> <<>>, idx |-> 1, pc |-> "consume"]

\* await self.send_result(...) returns, and the loop goes on with the next
\* message of the batch or asks for a new batch; or it raises.
send_result ==
    /\ consumerPc = "send_result"
    /\ \E ok \in BOOLEAN :
        IF ok
        THEN /\ sent' = Append(sent, [rpc_message_id |-> CurrentMessage, error |-> resultError])
             /\ msgLog' = Log(CurrentMessage, "sent")
             /\ LET then == next_rpc_message(batch, batchIdx) IN
                /\ batch' = then.batch
                /\ batchIdx' = then.idx
                /\ consumerPc' = then.pc
             /\ UNCHANGED abort
        ELSE /\ ConsumerRaises(CurrentMessage, "send_result")
             /\ UNCHANGED <<sent, msgLog, batch, batchIdx>>
    /\ UNCHANGED <<nextId, resultError, handlerOutcome>>
    /\ UNCHANGED notConsumeVars

\* The task of the loop is cancelled while it awaits: CancelledError is
\* raised at the await and leaves the loop.
consumer_cancelled ==
    /\ consumerPc \in {"consume", "before_rpc_execution", "_call_rpc_local",
                       "after_rpc_execution", "send_result"}
    /\ IF consumerPc = "_call_rpc_local"
       THEN LET then == try_call_rpc_local("CancelledError") IN
            /\ consumerPc' = then.pc
            /\ abort' = [abort EXCEPT ![CurrentMessage] = then.abort]
            /\ resultError' = then.error
            /\ handlerOutcome' = [handlerOutcome EXCEPT ![CurrentMessage] = "CancelledError"]
            /\ msgLog' = IF then.pc = "after_rpc_execution"
                         THEN Log(CurrentMessage, "executed") ELSE msgLog
       ELSE /\ consumerPc' = "cancelled"
            /\ abort' = IF consumerPc = "consume" THEN abort
                        ELSE [abort EXCEPT ![CurrentMessage] = "CancelledError"]
            /\ UNCHANGED <<resultError, handlerOutcome, msgLog>>
    /\ UNCHANGED <<batch, batchIdx, nextId, sent>>
    /\ UNCHANGED notConsumeVars

InitConsume ==
    /\ BusClientInit(ALL_FEATURES)
    /\ LazyInit(TRUE)
    /\ ConsumeInit("consume")
    /\ CallInit /\ HookInit /\ SchedInit /\ EventInit

NextConsume ==
    \/ consume_rpcs_batch
    \/ consume_rpcs_transport_closed
    \/ validate_incoming
    \/ before_rpc_execution
    \/ _call_rpc_local
    \/ after_rpc_execution
    \/ send_result
    \/ consumer_cancelled

SpecConsume == InitConsume /\ [][NextConsume]_vars

SentCount(m) == Cardinality({i \in 1..Len(sent) : sent[i].rpc_message_id = m})

Received(m) == m < nextId

ConsumerEnded == consumerPc \in {"returned", "raised", "cancelled"}

\* The loop has gone past message m: it handles a later message or awaits
\* the next batch.
Passed(m) ==
    /\ Received(m)
    /\ IF batch = <<>> THEN TRUE ELSE m < CurrentMessage

\* What can make the loop leave a message without sending its result.
AbortCauses ==
    {"validate_incoming", "before_rpc_execution", "SuddenDeathException",
     "deform_to_bus", "CancelledError", "after_rpc_execution",
     "validate_outgoing", "send_result"}

\* C3 as stated: once the consume loop has ended, every RPC message it
\* received from the transport has exactly one ResultMessage with its id on
\* the result transport, whatever the handler, hooks and validation did.
C3_EveryReceivedMessageAnsweredOnce ==
    ConsumerEnded => \A m \in Messages : Received(m) => SentCount(m) = 1

\* C3 amended: no message id is ever sent twice; a message the loop has gone
\* past has exactly one result; a result is sent only for a message whose
\* validation and hooks all passed and whose handler returned or raised an
\* ordinary exception (the error flag tells which); a message at which
\* validation, a hook, deform_to_bus or send_result raised, the handler
\* raised SuddenDeathException or the loop was cancelled has no result and
\* ends the loop, leaving the rest of its batch unanswered too.
C3_ResultAtMostOnceAndOnlyWhenEveryStepPasses ==
    /\ \A m \in Messages :
        /\ SentCount(m) <= 1
        /\ ~Received(m) => SentCount(m) = 0
        /\ Passed(m) => SentCount(m) = 1 /\ abort[m] = "none"
        /\ abort[m] \in AbortCauses \cup {"none"}
        /\ abort[m] # "none" =>
              /\ SentCount(m) = 0
              /\ ConsumerEnded
              /\ m = CurrentMessage
              /\ \A later \in Messages :
                    (later > m /\ Received(later)) => SentCount(later) = 0
        /\ SentCount(m) = 1 =>
              /\ abort[m] = "none"
              /\ handlerOutcome[m] \in {"returned", "Exception"}
              /\ msgLog[m] = IF handlerOutcome[m] = "Exception"
                             THEN <<"validated_incoming", "before_rpc_execution", "executed",
                                    "after_rpc_execution", "sent">>
                             ELSE <<"validated_incoming", "before_rpc_execution", "executed",
                                    "after_rpc_execution", "validated_outgoing", "sent">>
    /\ \A i \in 1..Len(sent) :
        /\ sent[i].error = (handlerOutcome[sent[i].rpc_message_id] = "Exception")
        /\ \A j \in 1..Len(sent) : i < j => sent[i].rpc_message_id < sent[j].rpc_message_id

\* The loop answered one message with a value and one with an error, then
\* the handler of a third raised SuddenDeathException and the loop returned.
C3_Witness ==
    /\ consumerPc = "returned"
    /\ Len(sent) = 2
    /\ \E i, j \in 1..2 : sent[i].error /\ ~sent[j].error
    /\ \E m \in Messages : abort[m] = "SuddenDeathException" /\ SentCount(m) = 0

(***************************************************************************)
(* One call of BusClient.call_rpc_remote on a client whose lazy            *)
(* initialisation is complete. The call and the two tasks of its gather    *)
(* run on one event loop, which runs the callbacks of its ready queue in   *)
(* order; the transports, the hooks and the timer act from outside.        *)
(***************************************************************************)
notCallVars == <<lifeVars, lazyVars, consumeVars, hookVars, schedVars, eventVars>>

Timeouts == {0, 1}

Callback(cb, of) == [cb |-> cb, of |-> of]

Finished(ch, c) == ch[c] \in {"done", "raised", "cancelled"}

CallEnded == callPc \in {"returned", "raised", "LightbusTimeout", "LightbusServerError"}

\* Task.cancel() of a task that awaits its transport cancels the awaited
\* future, which schedules the task's next step; a task that has a step
\* scheduled already only has its cancellation noted.
cancel_wakeups(ch) ==
    LET waiting == SelectSeq(ChildOrder, LAMBDA c : ch[c] = "running")
    IN  [i \in 1..Len(waiting) |-> Callback("step", waiting[i])]

\* A timeout handler that raises LightbusTimeout without awaiting the future.
except_TimeoutError_no_drain(fut) == "LightbusTimeout"

\* A timeout handler that goes on to the after_rpc_call hook.
except_TimeoutError_then_hook(fut) ==
    IF fut = "pending" THEN "drain"
    ELSE IF fut = "exception" THEN "raised"
    ELSE "after_rpc_call"

\* The handler of asyncio.TimeoutError (lines 441-456): it awaits the gather
\* future, absorbs its CancelledError, and raises LightbusTimeout.
except_TimeoutError(fut) ==
    IF fut = "pending" THEN "drain"
    ELSE IF fut = "exception" THEN "raised"
    ELSE "LightbusTimeout"

\* wait_for returns the result of a finished gather, or raises its exception.
wait_for_returns(fut) == IF fut = "done" THEN "after_rpc_call" ELSE "raised"

\* wait_for finds the gather unfinished at the deadline: it cancels the
\* gather, which requests the cancellation of every unfinished child.
gather_cancel(ch, rdy) ==
    /\ timedOut' = TRUE
    /\ must_cancel' = {c \in Children : ~Finished(ch, c)}
    /\ ready' = rdy \o cancel_wakeups(ch)

\* result_message, _ = await asyncio.wait_for(future, timeout=timeout), up
\* to its first suspension. A deadline of 0 cancels an unfinished gather and
\* raises at once; a positive one waits for the gather or the timer.
wait_for(t, fut, ch, rdy) ==
    IF t = 0
    THEN IF fut # "pending"
         THEN /\ callPc' = wait_for_returns(fut)
              /\ ready' = rdy
              /\ UNCHANGED <<must_cancel, waiter, timedOut>>
         ELSE /\ gather_cancel(ch, rdy)
              /\ callPc' = except_TimeoutError(fut)
              /\ UNCHANGED waiter
    ELSE /\ callPc' = "wait_for"
         /\ waiter' = FALSE
         /\ ready' = IF fut # "pending" THEN Append(rdy, Callback("release_waiter", "none"))
                     ELSE rdy
         /\ UNCHANGED <<must_cancel, timedOut>>

\* call_rpc_remote from its start to its first suspension: the message is
\* validated as outgoing, the gather schedules its two tasks, and the
\* before_rpc_call hook is fired.
call_rpc_remote ==
    /\ callPc = "idle"
    /\ \E t \in Timeouts, valid \in BOOLEAN, hook \in {"suspends", "returns", "raises"} :
        /\ timeout' = t
        /\ IF ~valid
           THEN /\ callPc' = "raised"
                /\ UNCHANGED <<children, must_cancel, future, ready, waiter, timedOut, callLog>>
           ELSE /\ children' = [c \in Children |-> "scheduled"]
                /\ future' = "pending"
                /\ LET rdy == [i \in 1..Len(ChildOrder) |-> Callback("step", ChildOrder[i])] IN
                   CASE hook = "suspends" ->
                            /\ callPc' = "before_rpc_call"
                            /\ ready' = rdy
                            /\ callLog' = <<"validated_outgoing">>
                            /\ UNCHANGED <<must_cancel, waiter, timedOut>>
                     [] hook = "raises" ->
                            /\ callPc' = "raised"
                            /\ ready' = rdy
                            /\ callLog' = <<"validated_outgoing">>
                            /\ UNCHANGED <<must_cancel, waiter, timedOut>>
                     [] hook = "returns" ->
                            /\ callLog' = <<"validated_outgoing", "before_rpc_call">>
                            /\ wait_for(t, "pending", [c \in Children |-> "scheduled"], rdy)
    /\ UNCHANGED <<timerFired, hookOutcome, result_message>>
    /\ UNCHANGED notCallVars

\* A before_rpc_call hook that suspended comes to its end.
before_rpc_call_completes ==
    /\ callPc = "before_rpc_call"
    /\ hookOutcome = "none"
    /\ \E outcome \in {"returned", "raised"} : hookOutcome' = outcome
    /\ ready' = Append(ready, Callback("main", "none"))
    /\ UNCHANGED <<callPc, timeout, children, must_cancel, future, waiter, timerFired,
                   timedOut, result_message, callLog>>
    /\ UNCHANGED notCallVars

\* The transport operation a task of the gather awaits comes to its end: it
\* returns (receive_result with the reply) or raises.
transport_completes(c) ==
    /\ children[c] = "running"
    /\ c \notin must_cancel
    /\ \E outcome \in {"io_done", "io_failed"} :
        /\ children' = [children EXCEPT ![c] = outcome]
        /\ IF c = "receive_result" /\ outcome = "io_done"
           THEN \E reply \in {"ok", "error"} : result_message' = reply
           ELSE UNCHANGED result_message
    /\ ready' = Append(ready, Callback("step", c))
    /\ UNCHANGED <<callPc, timeout, must_cancel, future, waiter, timerFired, hookOutcome,
                   timedOut, callLog>>
    /\ UNCHANGED notCallVars

\* The timer of wait_for goes off.
timeout_expires ==
    /\ callPc = "wait_for"
    /\ ~timerFired
    /\ timerFired' = TRUE
    /\ ready' = Append(ready, Callback("release_waiter", "none"))
    /\ UNCHANGED <<callPc, timeout, children, must_cancel, future, waiter, hookOutcome,
                   timedOut, result_message, callLog>>
    /\ UNCHANGED notCallVars

\* One step of a task of the gather (receive_result, lines 581-587, or the
\* transport's call_rpc): a requested cancellation is raised in it and ends
\* it; otherwise it starts and awaits its transport, or ends as the
\* transport operation ended.
child_step(c, rdy) ==
    LET ended == Append(rdy, Callback("gather_done_callback", c)) IN
    /\ IF c \in must_cancel
       THEN /\ children' = [children EXCEPT ![c] = "cancelled"]
            /\ must_cancel' = must_cancel \ {c}
            /\ ready' = ended
       ELSE /\ UNCHANGED must_cancel
            /\ CASE children[c] = "scheduled" ->
                        /\ children' = [children EXCEPT ![c] = "running"]
                        /\ ready' = rdy
                 [] children[c] = "io_done" ->
                        /\ children' = [children EXCEPT ![c] = "done"]
                        /\ ready' = ended
                 [] children[c] = "io_failed" ->
                        /\ children' = [children EXCEPT ![c] = "raised"]
                        /\ ready' = ended
    /\ UNCHANGED <<callPc, future, waiter, timedOut, callLog>>

\* What the call has registered on the gather future while it waits for it.
future_callbacks ==
    CASE callPc \in {"wait_for", "cancel_and_wait"} -> <<Callback("release_waiter", "none")>>
      [] callPc = "drain" -> <<Callback("main", "none")>>
      [] OTHER -> <<>>

\* The callback of the gather for a finished child: the first cancelled or
\* failed child finishes the gather future, as does the last child to end.
gather_done_callback(c, rdy) ==
    LET outcome ==
            CASE future # "pending" -> future
              [] children[c] = "cancelled" -> "cancelled"
              [] children[c] = "raised" -> "exception"
              [] \A d \in Children : children[d] = "done" -> "done"
              [] OTHER -> "pending"
    IN  /\ future' = outcome
        /\ ready' = IF future = "pending" /\ outcome # "pending"
                    THEN rdy \o future_callbacks ELSE rdy
        /\ UNCHANGED <<callPc, children, must_cancel, waiter, timedOut, callLog>>

\* The waiter of wait_for is released, by the gather future or by the timer:
\* the first release wakes the call.
release_waiter(rdy) ==
    /\ IF callPc \in {"wait_for", "cancel_and_wait"} /\ ~waiter
       THEN /\ waiter' = TRUE
            /\ ready' = Append(rdy, Callback("main", "none"))
       ELSE /\ ready' = rdy
            /\ UNCHANGED waiter
    /\ UNCHANGED <<callPc, children, must_cancel, future, timedOut, callLog>>

\* The call resumes where it was suspended.
call_rpc_remote_resumes(rdy) ==
    /\ CASE callPc = "before_rpc_call" ->
                IF hookOutcome = "raised"
                THEN /\ callPc' = "raised"
                     /\ ready' = rdy
                     /\ UNCHANGED <<must_cancel, waiter, timedOut, callLog>>
                ELSE /\ callLog' = Append(callLog, "before_rpc_call")
                     /\ wait_for(timeout, future, children, rdy)
         [] callPc = "wait_for" ->
                /\ UNCHANGED callLog
                /\ IF future # "pending"
                   THEN /\ callPc' = wait_for_returns(future)
                        /\ ready' = rdy
                        /\ UNCHANGED <<must_cancel, waiter, timedOut>>
                   ELSE /\ gather_cancel(children, rdy)
                        /\ callPc' = "cancel_and_wait"
                        /\ waiter' = FALSE
         [] callPc \in {"cancel_and_wait", "drain"} ->
                /\ callPc' = except_TimeoutError(future)
                /\ ready' = rdy
                /\ UNCHANGED <<must_cancel, waiter, timedOut, callLog>>
    /\ UNCHANGED <<children, future>>

\* The event loop runs the first callback of its ready queue.
run_once ==
    /\ ready # <<>>
    /\ LET callback == Head(ready)
           rdy == Tail(ready)
       IN  CASE callback.cb = "step" -> child_step(callback.of, rdy)
             [] callback.cb = "gather_done_callback" -> gather_done_callback(callback.of, rdy)
             [] callback.cb = "release_waiter" -> release_waiter(rdy)
             [] callback.cb = "main" -> call_rpc_remote_resumes(rdy)
    /\ UNCHANGED <<timeout, timerFired, hookOutcome, result_message>>
    /\ UNCHANGED notCallVars

\* A call that treats an error result as any other result.
result_outcome_error_ignored(message, valid) ==
    IF valid THEN [pc |-> "returned", log |-> <<"validated_incoming">>]
    ELSE [pc |-> "raised", log |-> <<>>]

\* What call_rpc_remote does with the result message after the
\* after_rpc_call hook (lines 462-487): an error result raises
\* LightbusServerError, any other is validated as incoming and returned.
result_outcome(message, valid) ==
    IF message = "error" THEN [pc |-> "LightbusServerError", log |-> <<>>]
    ELSE IF valid THEN [pc |-> "returned", log |-> <<"validated_incoming">>]
    ELSE [pc |-> "raised", log |-> <<>>]

\* await self._execute_hook("after_rpc_call", ...) returns or raises; then
\* the result message is dealt with.
after_rpc_call ==
    /\ callPc = "after_rpc_call"
    /\ \E hook_ok \in BOOLEAN, valid \in BOOLEAN :
        IF ~hook_ok
        THEN /\ callPc' = "raised"
             /\ callLog' = Append(callLog, "after_rpc_call_raised")
        ELSE LET outcome == result_outcome(result_message, valid) IN
             /\ callPc' = outcome.pc
             /\ callLog' = Append(callLog, "after_rpc_call") \o outcome.log
    /\ UNCHANGED <<timeout, children, must_cancel, future, ready, waiter, timerFired,
                   hookOutcome, timedOut, result_message>>
    /\ UNCHANGED notCallVars

InitCall ==
    /\ BusClientInit(ALL_FEATURES)
    /\ LazyInit(TRUE)
    /\ ConsumeInit("none")
    /\ CallInit /\ HookInit /\ SchedInit /\ EventInit

NextCall ==
    \/ call_rpc_remote
    \/ before_rpc_call_completes
    \/ \E c \in Children : transport_completes(c)
    \/ timeout_expires
    \/ run_once
    \/ after_rpc_call

SpecCall == InitCall /\ [][NextCall]_vars

\* The event loop keeps running the callbacks of its ready queue.
LiveSpecCall == SpecCall /\ WF_vars(run_once)

NoTaskLeft ==
    /\ must_cancel = {}
    /\ \A c \in Children : Finished(children, c)

\* The call ended with the exception of one of its two operations.
RaisedByOperation ==
    /\ callPc = "raised"
    /\ future = "exception"
    /\ \E c \in Children : children[c] = "raised"

\* C4 as stated: a call_rpc_remote whose wait_for ran into the deadline ends
\* by raising LightbusTimeout, with neither the receive_result nor the
\* call_rpc task of its gather still running.
C4_TimeoutAlwaysRaisesLightbusTimeout ==
    (timedOut /\ CallEnded) => (callPc = "LightbusTimeout" /\ NoTaskLeft)

\* C4 amended: a call_rpc_remote whose wait_for runs into the deadline comes
\* to an end, and when it ends neither the receive_result nor the call_rpc
\* task of its gather is running or has a step or a cancellation pending. It
\* ends by raising LightbusTimeout, except when one of the two operations
\* had failed just before the deadline was noticed: then the drained gather
\* future raises that operation's exception and the call raises it instead.
\* LightbusTimeout is raised only after the deadline.
C4_TimeoutEndsCallAndLeavesNoTask ==
    /\ [](callPc = "LightbusTimeout" => timedOut)
    /\ []((timedOut /\ CallEnded) =>
            /\ NoTaskLeft
            /\ callPc = "LightbusTimeout" \/ RaisedByOperation)
    /\ (timedOut ~> CallEnded)

\* The deadline passed while both tasks awaited their transports, and the
\* call raised LightbusTimeout with both tasks cancelled.
C4_Witness ==
    /\ callPc = "LightbusTimeout"
    /\ timeout = 1
    /\ timerFired
    /\ "before_rpc_call" \in Range(callLog)
    /\ \A c \in Children : children[c] = "cancelled"

(***************************************************************************)
(* Hooks: registration of user callbacks and BusClient._execute_hook.      *)
(* A callback is one registration; registrations are numbered in the order *)
(* they are made.                                                          *)
(***************************************************************************)
notHookVars == <<lifeVars, lazyVars, consumeVars, callVars, schedVars, eventVars>>

RegisteringMethods == {"on_start", "on_stop", "before_worker_start", "after_worker_stopped"}

\* The hook name each registering method passes to _make_hook_decorator.
hook_name_of(method) ==
    CASE method = "on_start" -> "before_worker_start"
      [] method = "on_stop" -> "before_worker_start"
      [] method = "before_worker_start" -> "before_worker_start"
      [] method = "after_worker_stopped" -> "after_worker_stopped"

\* self._hook_callbacks[(name, bool(before_plugins))].append(fn)
_register_hook_callback(method, before_plugins) ==
    /\ Len(cbVia) < MaxCallbacks
    /\ LET fn == Len(cbVia) + 1
           key == <<hook_name_of(method), before_plugins>>
       IN  /\ _hook_callbacks' = [_hook_callbacks EXCEPT ![key] = Append(@, fn)]
           /\ cbVia' = Append(cbVia, method)
    /\ UNCHANGED <<hookPc, hookName, hookStage, hookIdx, hookTrace, registeredAtStart>>
    /\ UNCHANGED notHookVars

PluginRegistry == [plugin |-> TRUE, fn |-> 0]

UserCallback(fn) == [plugin |-> FALSE, fn |-> fn]

\* A firing that runs the plugin registry's callback first.
_execute_hook_order_plugins_first == <<"plugin_registry", "before_plugins", "after_plugins">>

\* The three parts of _execute_hook, in the order of its body: the loop over
\* the (name, True) callbacks ("before_plugins"), the plugin registry, the
\* loop over the (name, False) callbacks ("after_plugins").
_execute_hook_order == <<"before_plugins", "plugin_registry", "after_plugins">>

Done == [stage |-> Len(_execute_hook_order) + 1, idx |-> 1]

\* What _execute_hook awaits next, from callback idx of part stage on: it
\* goes through the list of a loop as the list is at that moment.
RECURSIVE next_await(_, _, _)
next_await(name, stage, idx) ==
    IF stage > Len(_execute_hook_order) THEN Done
    ELSE LET part == _execute_hook_order[stage] IN
         IF part = "plugin_registry"
         THEN IF idx = 1 THEN [stage |-> stage, idx |-> 1]
              ELSE next_await(name, stage + 1, 1)
         ELSE IF idx <= Len(_hook_callbacks[<<name, part = "before_plugins">>])
              THEN [stage |-> stage, idx |-> idx]
              ELSE next_await(name, stage + 1, 1)

\* The callable awaited at a position of the firing.
awaited(name, at) ==
    LET part == _execute_hook_order[at.stage] IN
    IF part = "plugin_registry" THEN PluginRegistry
    ELSE UserCallback(_hook_callbacks[<<name, part = "before_plugins">>][at.idx])

\* The firing goes on to position at: it calls what it finds there and
\* awaits it, or it has come to its end.
await_next(name, at, trace) ==
    /\ hookStage' = at.stage
    /\ hookIdx' = at.idx
    /\ IF at = Done
       THEN /\ hookPc' = "done"
            /\ hookTrace' = trace
       ELSE /\ hookPc' = "awaiting"
            /\ hookTrace' = Append(trace, awaited(name, at))

\* await self._execute_hook(name, ...), up to its first suspension.
_execute_hook(name) ==
    /\ hookPc \in {"idle", "done", "raised"}
    /\ hookName' = name
    /\ registeredAtStart' = _hook_callbacks
    /\ await_next(name, next_await(name, 1, 1), <<>>)
    /\ UNCHANGED <<_hook_callbacks, cbVia>>
    /\ UNCHANGED notHookVars

\* The awaited callback or plugin hook returns, and the firing goes on; or
\* it raises, and the firing ends with its exception.
_execute_hook_resumes ==
    /\ hookPc = "awaiting"
    /\ \E ok \in BOOLEAN :
        IF ok
        THEN await_next(hookName, next_await(hookName, hookStage, hookIdx + 1), hookTrace)
        ELSE /\ hookPc' = "raised"
             /\ UNCHANGED <<hookStage, hookIdx, hookTrace>>
    /\ UNCHANGED <<_hook_callbacks, cbVia, hookName, registeredAtStart>>
    /\ UNCHANGED notHookVars

InitHook ==
    /\ BusClientInit(ALL_FEATURES)
    /\ LazyInit(FALSE)
    /\ ConsumeInit("none")
    /\ CallInit /\ HookInit /\ SchedInit /\ EventInit

NextHook ==
    \/ \E method \in RegisteringMethods, before_plugins \in BOOLEAN :
          _register_hook_callback(method, before_plugins)
    \/ \E name \in HookNames : _execute_hook(name)
    \/ _execute_hook_resumes

SpecHook == InitHook /\ [][NextHook]_vars

TracePositions == 1..Len(hookTrace)

PluginPosition ==
    IF \E i \in TracePositions : hookTrace[i].plugin
    THEN CHOOSE i \in TracePositions : hookTrace[i].plugin
    ELSE Len(hookTrace) + 1

\* The position of callback fn in a list of callbacks, 0 if it is not there.
IndexIn(list, fn) ==
    IF \E i \in 1..Len(list) : list[i] = fn
    THEN CHOOSE i \in 1..Len(list) : list[i] = fn
    ELSE 0

CalledAt(fn) == {i \in TracePositions : hookTrace[i] = UserCallback(fn)}

\* C7: in every firing of a hook, whatever is called before the plugin
\* registry's callback is a callback registered for that hook name with
\* before_plugins=True and whatever is called after it is one registered
\* with before_plugins=False, each side in registration order; nothing is
\* called twice; the plugin registry's callback is called only once every
\* before_plugins=True callback registered at the start of the firing has
\* been called; and a firing that completes has called every callback
\* registered for the name at its start, and the plugin registry's.
C7_BeforeCallbacksThenPluginsThenAfterCallbacks ==
    hookPc # "idle" =>
        LET before == _hook_callbacks[<<hookName, TRUE>>]
            after == _hook_callbacks[<<hookName, FALSE>>]
            side(i) == IF i < PluginPosition THEN before ELSE after
        IN  /\ \A i, j \in TracePositions : i < j => hookTrace[i] # hookTrace[j]
            /\ \A i \in TracePositions \ {PluginPosition} :
                  /\ ~hookTrace[i].plugin
                  /\ IndexIn(side(i), hookTrace[i].fn) > 0
            /\ \A i, j \in TracePositions \ {PluginPosition} :
                  (i < j /\ side(i) = side(j)) =>
                      IndexIn(side(i), hookTrace[i].fn) < IndexIn(side(j), hookTrace[j].fn)
            /\ PluginPosition <= Len(hookTrace) =>
                  \A i \in 1..Len(registeredAtStart[<<hookName, TRUE>>]) :
                      \E k \in CalledAt(registeredAtStart[<<hookName, TRUE>>][i]) : k < PluginPosition
            /\ hookPc = "done" =>
                  /\ PluginPosition <= Len(hookTrace)
                  /\ \A i \in 1..Len(registeredAtStart[<<hookName, FALSE>>]) :
                        \E k \in CalledAt(registeredAtStart[<<hookName, FALSE>>][i]) : k > PluginPosition

\* A firing completed that called two before_plugins=True callbacks, the
\* plugin registry and a before_plugins=False callback.
C7_Witness ==
    /\ hookPc = "done"
    /\ Len(registeredAtStart[<<hookName, TRUE>>]) = 2
    /\ Len(registeredAtStart[<<hookName, FALSE>>]) = 1
    /\ Len(hookTrace) = 4

(***************************************************************************)
(* Periodic tasks: BusClient.every and the call_every coroutine it makes,  *)
(* run as a task for runFor ticks of a discrete clock and then cancelled.  *)
(***************************************************************************)
notSchedVars == <<features, api_registry, startedBy, _event_listeners, taskVars, shutVars, closeVars, srvVars,
                  lazyVars, rpcVars, hookVars, eventVars>>

Max(a, b) == IF a >= b THEN a ELSE b

\* A wrapper that never asks for an immediate first call.
every_coroutine_never_immediately(timedelta, immediately) ==
    [timedelta |-> timedelta, also_run_immediately |-> FALSE]

\* call_every(callback=f, timedelta=td, also_run_immediately=also_run_immediately, ...)
every_coroutine(timedelta, immediately) ==
    [timedelta |-> timedelta, also_run_immediately |-> immediately]

\* @bus.client.every(seconds=..., also_run_immediately=...) applied to a
\* callable: a zero timedelta raises InvalidSchedule, any other makes the
\* call_every coroutine and adds it as a background task.
every ==
    /\ schedPc = "none"
    /\ \E seconds \in 0..MaxPeriod, immediately \in BOOLEAN :
        /\ td' = seconds
        /\ also_run_immediately' = immediately
        /\ IF seconds = 0
           THEN /\ schedPc' = "InvalidSchedule"
                /\ UNCHANGED <<coroutine, _background_coroutines>>
           ELSE /\ schedPc' = "registered"
                /\ coroutine' = every_coroutine(seconds, immediately)
                /\ _background_coroutines' =
                       Append(_background_coroutines, Len(_background_coroutines) + 1)
    /\ UNCHANGED <<now, runFor, first_run, start_time, wakeAt, callEnd, callStarts, callEnds>>
    /\ UNCHANGED notSchedVars

\* A sleep of the whole period whatever the callback took.
sleep_full_period(period, total_execution_time) == period

\* The sleep of call_every after an iteration: what is left of the period
\* once the execution time is taken off, and nothing if none is left.
sleep_time(period, total_execution_time) == Max(0, period - total_execution_time)

\* One iteration of call_every begins: it notes the time and calls the
\* callback, except in a first iteration without also_run_immediately,
\* which goes to sleep at once.
call_every_iteration(first) ==
    /\ start_time' = now
    /\ IF ~first \/ coroutine.also_run_immediately
       THEN /\ schedPc' = "calling"
            /\ callStarts' = Append(callStarts, now)
            /\ \E execution_time \in 0..MaxExec : callEnd' = now + execution_time
            /\ UNCHANGED wakeAt
       ELSE /\ schedPc' = "sleeping"
            /\ wakeAt' = now + sleep_time(coroutine.timedelta, 0)
            /\ UNCHANGED <<callStarts, callEnd>>

\* The task of the coroutine starts, to be cancelled runFor ticks later.
call_every_starts ==
    /\ schedPc = "registered"
    /\ \E T \in 1..MaxTime : runFor' = T
    /\ first_run' = TRUE
    /\ call_every_iteration(TRUE)
    /\ UNCHANGED <<now, td, also_run_immediately, coroutine, callEnds, _background_coroutines>>
    /\ UNCHANGED notSchedVars

\* The callback returns, and call_every sleeps for the rest of the period.
callback_returns ==
    /\ schedPc = "calling"
    /\ now = callEnd
    /\ callEnds' = Append(callEnds, now)
    /\ wakeAt' = now + sleep_time(coroutine.timedelta, now - start_time)
    /\ schedPc' = "sleeping"
    /\ UNCHANGED <<now, td, also_run_immediately, coroutine, runFor, first_run, start_time,
                   callEnd, callStarts, _background_coroutines>>
    /\ UNCHANGED notSchedVars

\* The sleep ends, and the next iteration begins.
sleep_returns ==
    /\ schedPc = "sleeping"
    /\ now = wakeAt
    /\ first_run' = FALSE
    /\ call_every_iteration(FALSE)
    /\ UNCHANGED <<now, td, also_run_immediately, coroutine, runFor, callEnds,
                   _background_coroutines>>
    /\ UNCHANGED notSchedVars

\* The task is cancelled runFor ticks after its start, wherever it is.
call_every_cancelled ==
    /\ schedPc \in {"calling", "sleeping"}
    /\ now = runFor
    /\ schedPc' = "cancelled"
    /\ UNCHANGED <<now, td, also_run_immediately, coroutine, runFor, first_run, start_time,
                   wakeAt, callEnd, callStarts, callEnds, _background_coroutines>>
    /\ UNCHANGED notSchedVars

\* The clock advances when nothing is due at the current tick.
tick ==
    /\ schedPc \in {"calling", "sleeping"}
    /\ now < runFor
    /\ schedPc = "calling" => now < callEnd
    /\ schedPc = "sleeping" => now < wakeAt
    /\ now' = now + 1
    /\ UNCHANGED <<schedPc, td, also_run_immediately, coroutine, runFor, first_run,
                   start_time, wakeAt, callEnd, callStarts, callEnds, _background_coroutines>>
    /\ UNCHANGED notSchedVars

InitSched ==
    /\ BusClientInit(ALL_FEATURES)
    /\ LazyInit(FALSE)
    /\ ConsumeInit("none")
    /\ CallInit /\ HookInit /\ SchedInit /\ EventInit

NextSched ==
    \/ every
    \/ call_every_starts
    \/ callback_returns
    \/ sleep_returns
    \/ call_every_cancelled
    \/ tick

SpecSched == InitSched /\ [][NextSched]_vars

CallsMade == Len(callStarts)

\* Every call made has returned, at the tick it began.
ExecutionTimeNegligible ==
    /\ Len(callEnds) = CallsMade
    /\ \A k \in 1..CallsMade : callEnds[k] = callStarts[k]

\* Every call made takes less than the period: those that have returned,
\* and the one cut short by the cancellation if there is one.
ExecutionTimeBelowPeriod ==
    /\ \A k \in 1..Len(callEnds) : callEnds[k] - callStarts[k] < td
    /\ Len(callEnds) < CallsMade => callEnd - callStarts[CallsMade] < td

ExpectedCalls == (runFor \div td) + (IF also_run_immediately THEN 1 ELSE 0)

\* C8: a callable scheduled by every() with period td and cancelled runFor
\* ticks after its task started, runFor not a multiple of td, whose calls
\* take no time, has been called floor(runFor/td) times without
\* also_run_immediately and floor(runFor/td)+1 times with it; its first
\* call is at tick td without also_run_immediately and at tick 0 with it.
C8_PeriodicCallCount ==
    (schedPc = "cancelled" /\ runFor % td # 0 /\ ExecutionTimeNegligible) =>
        /\ CallsMade = ExpectedCalls
        /\ CallsMade > 0 => callStarts[1] = (IF also_run_immediately THEN 0 ELSE td)

\* An immediate callable of period 2 was cancelled after 5 ticks, called 3
\* times; its calls took no time.
C8_Witness ==
    /\ schedPc = "cancelled"
    /\ td = 2
    /\ runFor = 5
    /\ also_run_immediately
    /\ ExecutionTimeNegligible
    /\ CallsMade = 3

\* C9: each call after a returned one starts a period after the start of
\* the previous call when that call took no longer than the period, and at
\* the tick the previous call ended when it took longer; and a callable
\* whose calls each take less than the period is called as many times in a
\* window as one whose calls take no time.
C9_ExecutionTimeAccountedFor ==
    /\ \A k \in 1..Len(callEnds) :
          k < CallsMade =>
              callStarts[k + 1] = Max(callStarts[k] + td, callEnds[k])
    /\ (schedPc = "cancelled" /\ runFor % td # 0 /\ ExecutionTimeBelowPeriod) =>
          CallsMade = ExpectedCalls

\* A call shorter than the period was followed by a call a period after its
\* start, and a call longer than the period by a call at its end.
C9_Witness ==
    /\ schedPc = "cancelled"
    /\ \E k \in 1..Len(callEnds) :
          /\ k < CallsMade
          /\ callEnds[k] > callStarts[k]
          /\ callEnds[k] - callStarts[k] < td
          /\ callStarts[k + 1] = callStarts[k] + td
    /\ \E k \in 1..Len(callEnds) :
          /\ k < CallsMade
          /\ callEnds[k] - callStarts[k] > td
          /\ callStarts[k + 1] = callEnds[k]

\* The lifecycle with the event loop's guarantee that the shutdown monitor,
\* blocked in async_q.get(), runs once the queue holds an exit code.
LiveSpec == Spec /\ WF_vars(server_shutdown_monitor)

(***************************************************************************)
(* Properties of the lifecycle.                                            *)
(***************************************************************************)

\* C1: a call of close/close_async that begins after a call has returned
\* normally raises BusAlreadyClosed.
C1_SecondCloseRaises ==
    \A c \in Closers : closeAfterOk[c] => closeResult[c] = "BusAlreadyClosed"

C1_Witness ==
    \E c \in Closers :
        /\ closeAfterOk[c]
        /\ closePc[c] = "returned"
        /\ closeResult[c] = "BusAlreadyClosed"

\* C2: the lazy initialisation runs exactly once per client, however many
\* coroutines call lazy_load_now and however they interleave: the schema is
\* loaded once, the local schemas are published once and every transport is
\* opened once (never twice, and once when the load is complete).
C2_LazyInitOnce ==
    /\ schemaLoads <= 1
    /\ schemaPublishes <= 1
    /\ \A t \in get_all_transports : opened[t] <= 1
    /\ _lazy_load_complete =>
          /\ schemaLoads = 1
          /\ schemaPublishes = 1
          /\ \A t \in get_all_transports : opened[t] = 1

ServerStarted == serverPc \in {"running", "stopping", "stopped"}

\* C5: after start_server no task exists of a category whose feature is
\* disabled: no RPC consumer without rpcs, no listener task without events,
\* no background task (and none in _background_tasks) without tasks.
C5_DisabledFeaturesSpawnNothing ==
    ServerStarted =>
        /\ "rpcs" \notin features => consume_rpc_task = "none" /\ _consumers = "none"
        /\ "events" \notin features => \A l \in 1..MaxListeners : listenerTask[l] = "none"
        /\ "tasks" \notin features =>
              /\ _background_tasks = <<>>
              /\ \A i \in 1..MaxBackground : bgTask[i] = "none"

C5_Witness ==
    /\ serverPc = "running"
    /\ features = {}
    /\ Len(_background_coroutines) >= 1
    /\ Len(_event_listeners) >= 1

BackgroundRaised == \E i \in 1..MaxBackground : bgTask[i] = "raised"

\* C6 as claimed: once a background task has raised, the shutdown monitor
\* eventually receives a non-zero exit code, stores it and stops the loop.
\* Only the monitor writes exit_code and stops the loop, and it does so
\* once: when it has ended, what has not happened never will.
C6_RaiseAlwaysStopsWithNonZero ==
    (BackgroundRaised /\ _shutdown_monitor_task \in {"done", "cancelled"})
        => (exit_code # 0 /\ loop_stopped)

\* C6 as amended: once a background task has raised, a non-zero exit code
\* has been put on the shutdown channel; the monitor stops the loop whenever
\* it stores an exit code; and if the monitor is still waiting with that
\* non-zero code first in the channel, it eventually stores a non-zero
\* exit_code and stops the loop, unless stop_server cancels it first.
C6_RaiseRequestsShutdown ==
    /\ [](BackgroundRaised =>
            (1 \in Range(_server_shutdown_queue.items) \/ exit_code # 0))
    /\ [](_shutdown_monitor_task = "done" => loop_stopped)
    /\ (/\ BackgroundRaised
        /\ _shutdown_monitor_task = "waiting"
        /\ _server_shutdown_queue.items # <<>>
        /\ Head(_server_shutdown_queue.items) # 0)
          ~> (_shutdown_monitor_task = "cancelled" \/ (exit_code # 0 /\ loop_stopped))

C6_Witness ==
    /\ BackgroundRaised
    /\ _shutdown_monitor_task = "done"
    /\ exit_code = 1
    /\ loop_stopped

NoClientTaskRunning ==
    /\ \A l \in 1..MaxListeners : listenerTask[l] # "running"
    /\ \A i \in 1..MaxBackground : bgTask[i] # "running"

\* C10: whenever close calls close() on a transport, no listener task and no
\* background task of the client is running: all were cancelled before.
C10_CancelBeforeTransportClose ==
    [][(\E t \in get_all_transports : closedT'[t] > closedT[t]) => NoClientTaskRunning]_vars

C10_Witness ==
    /\ \E t \in get_all_transports : closedT[t] > 0
    /\ \E l \in 1..MaxListeners : listenerTask[l] = "cancelled"
    /\ \E i \in 1..MaxBackground : bgTask[i] = "cancelled"

\* C11: a call of close in which cancelling a listener or background task
\* raised goes on all the same: unless closing a transport or the schema
\* transport itself raises, it closes every distinct transport and the
\* schema transport, marks the client closed and returns normally; it never
\* ends on account of the cancellation error.
C11_CancelErrorDoesNotStopClose ==
    \A c \in Closers :
        (cancelRaised[c] /\ closePc[c] \in {"finally", "returned"} /\ closeResult[c] # "error") =>
            /\ closeResult[c] = "ok"
            /\ _closed
            /\ schemaClosed >= 1
            /\ \A t \in get_all_transports : closedT[t] >= 1

\* A close in which a cancel() raised has returned with the client closed.
C11_Witness ==
    \E c \in Closers :
        /\ cancelRaised[c]
        /\ closePc[c] = "returned"
        /\ closeResult[c] = "ok"
        /\ _closed
        /\ \A t \in get_all_transports : closedT[t] >= 1

\* C12: shutdown_server called before start_server has created the shutdown
\* channel changes no state of the client: while no channel exists nothing
\* is queued, exit_code is 0 and the loop is not asked to stop; the channel
\* start_server creates is empty, so the server then started is not shut
\* down by the earlier call: a stop of its loop follows a request made
\* after the start.
C12_ShutdownBeforeStartIsNoOp ==
    /\ [](~_server_shutdown_queue.exists =>
            /\ _server_shutdown_queue.items = <<>>
            /\ exit_code = 0
            /\ ~loop_stopped
            /\ _shutdown_monitor_task = "none")
    /\ [][(shutdown_server /\ ~_server_shutdown_queue.exists) =>
            UNCHANGED <<regVars, taskVars, _server_shutdown_queue, _shutdown_monitor_task,
                        exit_code, loop_stopped, closeVars, srvVars, lazyVars, otherVars>>]_vars
    /\ [][(~_server_shutdown_queue.exists /\ _server_shutdown_queue'.exists) =>
            (_server_shutdown_queue'.items = <<>> /\ exit_code' = 0 /\ ~loop_stopped')]_vars
    /\ []((loop_stopped \/ exit_code # 0) => shutdown_requests # <<>>)

\* shutdown_server was called before start_server, and the server started
\* afterwards runs with exit_code 0 and its loop not stopped.
C12_Witness ==
    /\ requestedBeforeStart
    /\ serverPc = "running"
    /\ _shutdown_monitor_task = "waiting"
    /\ _server_shutdown_queue.items = <<>>
    /\ shutdown_requests = <<>>
    /\ exit_code = 0
    /\ ~loop_stopped

\* C13 as stated: after any shutdown_server(c) on a started server, the
\* shutdown monitor eventually stores c in exit_code and asks the event loop
\* to stop.
C13_EveryRequestIsStored ==
    \A c \in ExitCodes :
        (\E i \in 1..Len(shutdown_requests) : shutdown_requests[i] = c)
            ~> (exit_code = c /\ loop_stopped)

\* C13 amended: exit_code is 0 and the loop is not asked to stop until the
\* shutdown monitor has received an exit code; the monitor receives one
\* code only, the first put on the channel of the started server, stores it
\* in exit_code and asks the loop to stop; after a request on a started
\* server this eventually happens unless stop_server cancels the monitor
\* first. Requests after the first stay on the channel and are not stored.
C13_FirstRequestIsStored ==
    /\ [](_shutdown_monitor_task # "done" => (exit_code = 0 /\ ~loop_stopped))
    /\ [](_shutdown_monitor_task = "done" =>
            /\ loop_stopped
            /\ shutdown_requests # <<>>
            /\ exit_code = shutdown_requests[1]
            /\ Len(_server_shutdown_queue.items) = Len(shutdown_requests) - 1)
    /\ (shutdown_requests # <<>>)
          ~> (\/ _shutdown_monitor_task = "cancelled"
              \/ (loop_stopped /\ exit_code = shutdown_requests[1]))

\* The monitor stored the exit code 1 of the first request; a second
\* request, with code 0, stays on the channel.
C13_Witness ==
    /\ _shutdown_monitor_task = "done"
    /\ shutdown_requests = <<1, 0>>
    /\ exit_code = 1
    /\ loop_stopped
    /\ _server_shutdown_queue.items = <<0>>

NoUserApis == api_registry \cap UserApis = {}

NoRpcConsumer == consume_rpc_task = "none" /\ _consumers = "none"

\* C14 as stated: once a server has been started on a client with no APIs
\* registered, RPCS is not in features and no RPC consumer task exists.
C14_NoApisDisablesRpcs ==
    (startedBy # "none" /\ NoUserApis) => ("rpcs" \notin features /\ NoRpcConsumer)

\* C14 amended: a server started by run_forever on a client with no APIs
\* registered has RPCS removed from its features and starts no RPC consumer
\* task; run_forever leaves the features alone when an API is registered,
\* and start_server called directly never changes the features: with RPCS
\* enabled it starts the RPC consumer task whatever the registry holds.
C14_RunForeverDisablesRpcs ==
    /\ [](startedBy = "run_forever" /\ NoUserApis => "rpcs" \notin features /\ NoRpcConsumer)
    /\ [][startedBy' # startedBy =>
            features' = IF startedBy' = "run_forever" /\ NoUserApis
                        THEN features \ {"rpcs"} ELSE features]_vars
    /\ []((serverPc = "running" /\ "rpcs" \in features) => ~NoRpcConsumer)

\* run_forever started a server on a client without APIs: it runs with
\* RPCS removed and without an RPC consumer.
C14_Witness ==
    /\ startedBy = "run_forever"
    /\ NoUserApis
    /\ serverPc = "running"
    /\ "events" \in features
    /\ "rpcs" \notin features
    /\ NoRpcConsumer

\* The registrations made with on_stop.
OnStopCallbacks == {fn \in 1..Len(cbVia) : cbVia[fn] = "on_stop"}

\* C15: a callback registered with on_stop is not called by a firing of
\* before_worker_start, and a firing of after_worker_stopped that completes
\* has called every on_stop callback registered when it began.
C15_OnStopRunsAfterWorkerStopped ==
    \A fn \in OnStopCallbacks :
        /\ hookName = "before_worker_start" => CalledAt(fn) = {}
        /\ (hookName = "after_worker_stopped" /\ hookPc = "done"
              /\ \E key \in HookNames \X BOOLEAN :
                    fn \in Range(registeredAtStart[key])) => CalledAt(fn) # {}

\* What one fire_event is to do, in order.
EventSent == <<"before_event_sent", "send_event", "after_event_sent">>

\* C16: every call of fire_event has fired before_event_sent, called
\* send_event on the event transport and fired after_event_sent, in that
\* order, and fire_event has never called event_client.listen.
C16_FireEventPublishes ==
    /\ listen_calls = 0
    /\ Len(eventLog) = fire_event_calls * Len(EventSent)
    /\ \A i \in 1..Len(eventLog) : eventLog[i] = EventSent[((i - 1) % Len(EventSent)) + 1]

\* The result sent for message m is an error result.
SentAsError(m) ==
    \E i \in 1..Len(sent) : sent[i].rpc_message_id = m /\ sent[i].error

\* C17: when the local method of a received message raises an exception
\* other than CancelledError and SuddenDeathException, that exception does
\* not leave the consume loop; the reply is not validated as outgoing; the
\* result sent for the message is an error result; once the loop is past
\* the message that result has been sent; and after sending it the loop
\* goes on with the next message or the next batch. Only the
\* after_rpc_execution hook or send_result raising, or a cancellation, can
\* still end the loop at that message.
C17_HandlerErrorBecomesErrorResult ==
    /\ [](\A m \in Messages :
            handlerOutcome[m] = "Exception" =>
                /\ abort[m] \in {"none", "after_rpc_execution", "send_result", "CancelledError"}
                /\ \A i \in 1..Len(msgLog[m]) : msgLog[m][i] # "validated_outgoing"
                /\ SentCount(m) = 1 => SentAsError(m)
                /\ Passed(m) => SentAsError(m))
    /\ [](\A m \in Messages : SentAsError(m) => handlerOutcome[m] = "Exception")
    /\ [][sent' # sent => consumerPc' \in {"validate", "consume"}]_vars

\* The handler of a message raised, its error result was sent, and the
\* loop went on to answer the next message.
C17_Witness ==
    \E m \in Messages :
        /\ handlerOutcome[m] = "Exception"
        /\ SentAsError(m)
        /\ m + 1 \in Messages
        /\ SentCount(m + 1) = 1

Logged(step) == \E i \in 1..Len(callLog) : callLog[i] = step

\* C18: a call_rpc_remote that raises LightbusServerError has received an
\* error result and has not validated it as incoming; one that returns has
\* received a result that is not an error and has validated it as incoming
\* last; no call returns for an error result; and once the after_rpc_call
\* hook has returned, an error result always raises LightbusServerError.
C18_ErrorResultRaisesServerError ==
    /\ callPc = "LightbusServerError" =>
          (result_message = "error" /\ ~Logged("validated_incoming"))
    /\ callPc = "returned" =>
          /\ result_message = "ok"
          /\ callLog[Len(callLog)] = "validated_incoming"
    /\ result_message = "error" => (callPc # "returned" /\ ~Logged("validated_incoming"))
    /\ (CallEnded /\ Logged("after_rpc_call") /\ result_message = "error") =>
          callPc = "LightbusServerError"
    /\ (CallEnded /\ Logged("after_rpc_call") /\ result_message = "ok") =>
          (callPc = "returned" <=> Logged("validated_incoming"))

\* A call received an error result, fired after_rpc_call and raised
\* LightbusServerError.
C18_Witness ==
    /\ callPc = "LightbusServerError"
    /\ result_message = "error"
    /\ Logged("after_rpc_call")

StepsOfResult == <<"validated_incoming", "before_rpc_execution", "executed",
                   "after_rpc_execution", "validated_outgoing", "sent">>

StepsOfErrorResult == <<"validated_incoming", "before_rpc_execution", "executed",
                        "after_rpc_execution", "sent">>

IsPrefix(s, t) == Len(s) <= Len(t) /\ \A i \in 1..Len(s) : s[i] = t[i]

MsgLogged(m, step) == \E i \in 1..Len(msgLog[m]) : msgLog[m][i] = step

\* C19: the steps made for a message are an initial part of validated
\* incoming, before_rpc_execution hook, local execution, after_rpc_execution
\* hook, reply validated outgoing, reply sent, each at most once and in that
\* order, the outgoing validation being left out exactly when the result is
\* an error; each step is added at the end; a reply is on the result
\* transport exactly when "sent" is the last step.
C19_StepsInOrder ==
    /\ [](\A m \in Messages :
            /\ IF handlerOutcome[m] = "Exception"
               THEN IsPrefix(msgLog[m], StepsOfErrorResult)
               ELSE IsPrefix(msgLog[m], StepsOfResult)
            /\ MsgLogged(m, "sent") => MsgLogged(m, "after_rpc_execution")
            /\ MsgLogged(m, "sent") =>
                  (MsgLogged(m, "validated_outgoing") <=> handlerOutcome[m] # "Exception")
            /\ SentCount(m) = (IF MsgLogged(m, "sent") THEN 1 ELSE 0)
            /\ ~Received(m) => msgLog[m] = <<>>)
    /\ [][\A m \in Messages : IsPrefix(msgLog[m], msgLog'[m])]_vars

\* One message went through all six steps and the next one, whose handler
\* raised, through the five steps of an error result.
C19_Witness ==
    \E m, e \in Messages :
        /\ msgLog[m] = StepsOfResult
        /\ msgLog[e] = StepsOfErrorResult
        /\ handlerOutcome[e] = "Exception"

Begun(m) == msgLog[m] # <<>> \/ (batch # <<>> /\ ~ConsumerEnded /\ CurrentMessage = m)

\* C20: whenever the loop has begun a message, the reply of every message
\* the transport returned before it has been sent; the replies are sent in
\* the order the transport returned the messages; and the transport is asked
\* for a new batch only when the reply of every message received so far has
\* been sent.
C20_MessagesDoNotOverlap ==
    /\ [](\A m, k \in Messages : (k < m /\ Begun(m)) => SentCount(k) = 1)
    /\ [](\A i, j \in 1..Len(sent) : i < j => sent[i].rpc_message_id < sent[j].rpc_message_id)
    /\ [](consumerPc = "consume" => \A k \in Messages : Received(k) => SentCount(k) = 1)
    /\ [][nextId' # nextId => \A k \in Messages : Received(k) => SentCount(k) = 1]_vars
    /\ [](\A i \in 1..Len(batch) : batch[i] = batch[1] + i - 1)

\* The second message of a batch of two is being handled after the reply of
\* the first was sent, and an earlier batch was handled before.
C20_Witness ==
    /\ Len(batch) = 2
    /\ batchIdx = 2
    /\ consumerPc = "_call_rpc_local"
    /\ batch[1] > 1
    /\ SentCount(batch[1]) = 1

\* C21: when the consumer task is cancelled while it awaits the local method
\* of a message, the loop ends with CancelledError at that message: the
\* message is not recorded as executed with a result, no ResultMessage with
\* its id is ever on the result transport, and the loop handles no later
\* message.
C21_CancellationIsNotAResult ==
    \A m \in Messages :
        handlerOutcome[m] = "CancelledError" =>
            /\ consumerPc = "cancelled"
            /\ abort[m] = "CancelledError"
            /\ SentCount(m) = 0
            /\ ~MsgLogged(m, "executed")
            /\ \A k \in Messages : k > m => msgLog[k] = <<>>

\* The loop answered one message and was cancelled while executing the
\* local method of the next.
C21_Witness ==
    \E m, k \in Messages :
        /\ k < m
        /\ SentCount(k) = 1
        /\ handlerOutcome[m] = "CancelledError"
        /\ msgLog[m] = <<"validated_incoming", "before_rpc_execution">>

\* The number of times the after_rpc_call hook was fired by the call.
AfterRpcCallFired ==
    Cardinality({i \in 1..Len(callLog) :
                    callLog[i] \in {"after_rpc_call", "after_rpc_call_raised"}})

\* wait_for has handed the result message of the call to call_rpc_remote:
\* the before_rpc_call hook returned, the gather finished with the results
\* of both operations, and the deadline did not cancel it.
ResultReceivedInTime ==
    /\ Logged("before_rpc_call")
    /\ future = "done"
    /\ ~timedOut
    /\ callPc # "wait_for"

\* C22: call_rpc_remote fires the after_rpc_call hook at most once; it has
\* fired it once when the call has ended after wait_for handed it a result
\* message, be it an error or not; a call that raises LightbusServerError or
\* returns has fired it before; and a call whose wait_for timed out never
\* fires it.
C22_AfterRpcCallOnceUnlessTimeout ==
    /\ AfterRpcCallFired <= 1
    /\ (CallEnded /\ ResultReceivedInTime) => AfterRpcCallFired = 1
    /\ callPc \in {"LightbusServerError", "returned"} => Logged("after_rpc_call")
    /\ AfterRpcCallFired = 1 =>
          (ResultReceivedInTime /\ result_message \in {"ok", "error"})
    /\ (timedOut \/ callPc = "LightbusTimeout") => AfterRpcCallFired = 0

\* The hook was fired once for an error result and the call raised
\* LightbusServerError.
C22_Witness ==
    /\ callPc = "LightbusServerError"
    /\ AfterRpcCallFired = 1
    /\ result_message = "error"
    /\ ~timedOut

\* The before_rpc_call hook has been fired and has not come to its end.
BeforeRpcCallRunning == callPc = "before_rpc_call" /\ hookOutcome = "none"

\* A task of the gather has begun to run receive_result or the transport's
\* call_rpc.
Started(c) == children[c] \notin {"none", "scheduled"}

\* C23: while the before_rpc_call hook has not completed, neither the
\* transport's call_rpc nor receive_result has started executing.
C23_BeforeHookCompletesBeforeOperation ==
    BeforeRpcCallRunning => \A c \in Children : ~Started(c)

\* call_rpc_remote has raised the error of its before_rpc_call hook.
BeforeRpcCallRaised ==
    /\ callPc = "raised"
    /\ Logged("validated_outgoing")
    /\ ~Logged("before_rpc_call")

\* C24, for the client call path: when a before_rpc_call callback raises,
\* call_rpc_remote raises and neither the transport's call_rpc nor
\* receive_result of that call is started or left running.
C24_HookFailureAbortsCall ==
    BeforeRpcCallRaised => \A c \in Children : ~Started(c)

\* An RPC consumer, an event-listener task or a background task has been
\* started.
WorkerTaskStarted ==
    \/ consume_rpc_task # "none"
    \/ _consumers # "none"
    \/ \E l \in 1..MaxListeners : listenerTask[l] # "none"
    \/ \E i \in 1..MaxBackground : bgTask[i] # "none"
    \/ _background_tasks # <<>>

HookEnded(how) == \E i \in 1..Len(hooksFired) : hooksFired[i] = how

LazyLoaded ==
    /\ schemaLoads >= 1
    /\ schemaPublishes >= 1
    /\ \A t \in get_all_transports : opened[t] >= 1

\* C26: whenever lazy_load_now has returned to a caller, which then goes on
\* to use its transport, the remote schemas have been loaded and every
\* distinct transport has been opened, however the callers interleave; and
\* _lazy_load_complete is true only in such states.
C26_NoTransportUseBeforeLoad ==
    /\ \A k \in LazyCallers : lazyPc[k] = "done" => LazyLoaded
    /\ _lazy_load_complete => LazyLoaded

\* lazy_load_now has returned to one caller while another caller, which
\* entered before the load was complete, is still opening transports.
C26_Witness ==
    \E k, j \in Clients :
        /\ lazyPc[k] = "done"
        /\ lazyPc[j] = "open"
        /\ lazyIdx[j] = 1
        /\ opened[1] = 1

StoppedAndClosed ==
    /\ serverPc = "stopped"
    /\ closePc[1] = "returned"
    /\ closeResult[1] = "ok"

\* C28: once a started server has been stopped by stop_server and closed,
\* no task spawned by the client is left running: neither the shutdown
\* monitor, the schema monitor, the consume_rpcs task and the consume loops
\* it started, a listener task nor a background task.
C28_NoTaskLeftAfterStopAndClose ==
    StoppedAndClosed =>
        /\ _shutdown_monitor_task # "waiting"
        /\ monitor_task # "running"
        /\ consume_rpc_task \notin {"pending", "running"}
        /\ _consumers # "running"
        /\ NoClientTaskRunning

\* C29: _closed is true only when close() has been called on every distinct
\* transport and on the schema transport, and exactly when some call of
\* close went through all of them without an error; a call in which a
\* close() raised leaves _closed as it was, so that while no call has
\* succeeded a later call does not raise BusAlreadyClosed.
C29_ClosedOnlyAfterCompleteRelease ==
    /\ [](_closed =>
            /\ \A t \in get_all_transports : closedT[t] >= 1
            /\ schemaClosed >= 1)
    /\ [](_closed <=> \E c \in Closers : closeResult[c] = "ok")
    /\ [](\A c \in Closers :
            closeResult[c] = "BusAlreadyClosed" =>
                \E d \in Closers : d # c /\ closeResult[d] = "ok")
    /\ [][\A c \in Closers :
            (closeResult[c] # "error" /\ closeResult'[c] = "error") => _closed' = _closed]_vars

\* A first call of close ended with the error of a transport's close()
\* and left the client open; a later call closed it.
C29_Witness ==
    \E c, d \in Closers :
        /\ c < d
        /\ closeResult[c] = "error"
        /\ closePc[c] = "returned"
        /\ schemaClosed = 1
        /\ closeResult[d] = "ok"
        /\ _closed

\* Call c of close_async has begun and has not returned.
Closing(c) == closePc[c] \notin {"idle", "returned"}

\* C30: when two calls of close_async on a client overlap, and no other
\* call was made, close() is called at most once on each transport and the
\* two calls do not both complete normally.
C30_OverlappingCloseReleasesOnce ==
    \A c, d \in Closers :
        (c # d /\ \A e \in Closers \ {c, d} : closePc[e] = "idle") =>
            /\ (Closing(c) /\ Closing(d)) =>
                  \A t \in get_all_transports : closedT[t] <= 1
            /\ ~(closeResult[c] = "ok" /\ closeResult[d] = "ok")

====
